---- MODULE Spec2Model ----
(***************************************************************************)
(* ArtraCFD: parameter initialisation, the ghost-cell immersed-boundary    *)
(* classifier, the EnSight exporter and the kernels of cfd_commons.c, as a *)
(* state machine.                                                          *)
(*                                                                         *)
(* Real numbers are exact rationals <<numerator, denominator>> in lowest   *)
(* terms with a positive denominator; floating-point rounding is not       *)
(* modelled. A division of a non-zero value by zero gives <<1, 0>> or      *)
(* <<-1, 0>> (infinite); the sign of a zero is not modelled.               *)
(***************************************************************************)
EXTENDS Integers, Sequences, FiniteSets, TLC

VARIABLES pc, space, time, flow, part, particle, nodeFlag, geoID, located,
          caseFile, geoFile, hist, kernel, varFile, particleFile

vars == <<pc, space, time, flow, part, particle, nodeFlag, geoID, located,
          caseFile, geoFile, hist, kernel, varFile, particleFile>>

(***************************************************************************)
(* Bounds of the model.                                                    *)
(***************************************************************************)
MaxCellsX == 3
MaxSteps == 1
MaxOffset == 2
MaxOutputs == 3
MaxTransientSteps == 2
MaxParamCells == 10
MaxRefLength == 2
MaxLength == 2

\* Input sets of the classifier runs
CellsYZ == {1, 2}
GhostWidths == {1, 2}
Origins == {0, 1}

(***************************************************************************)
(* Exact rational arithmetic standing for the C type Real.                 *)
(***************************************************************************)
Abs(n) == IF n < 0 THEN -n ELSE n

RECURSIVE GCD(_, _)
GCD(a, b) == IF b = 0 THEN a ELSE GCD(b, a % b)

Rat(n, d) ==
    LET g == GCD(Abs(n), Abs(d))
        s == IF d < 0 THEN -1 ELSE 1
    IN  <<(s * n) \div g, (s * d) \div g>>

R(n) == <<n, 1>>
RAdd(a, b) == Rat(a[1] * b[2] + b[1] * a[2], a[2] * b[2])
RSub(a, b) == Rat(a[1] * b[2] - b[1] * a[2], a[2] * b[2])
RMul(a, b) == Rat(a[1] * b[1], a[2] * b[2])
RDiv(a, b) == Rat(a[1] * b[2], a[2] * b[1])
RLess(a, b) == a[1] * b[2] < b[1] * a[2]
Pow2(a) == RMul(a, a)

\* cfd_commons.c: MinReal
MinReal(x, y) == IF RLess(x, y) THEN x ELSE y

\* IndexNode with the two extents exchanged
IndexNodeSwapped(k, j, i, jMax, iMax) == (k * iMax + j) * jMax + i

\* cfd_commons.c: IndexNode
IndexNode(k, j, i, jMax, iMax) == (k * jMax + j) * iMax + i

\* cfd_commons.c: PointSpace
PointSpace(n, sMin, ds, ng) == RAdd(sMin, RMul(R(n - ng), ds))

(***************************************************************************)
(* ComputeCFDParameters                                                    *)
(***************************************************************************)
\* The node ranges <<Sub, Sup>> of one axis with n node layers: lower
\* exterior ghost, lower boundary, interior node layers, upper boundary, upper
\* exterior ghost
AxisRanges(n, ng) ==
    << <<0, ng>>, <<ng, ng + 1>>, <<ng + 1, n + ng - 1>>, <<n + ng - 1, n + ng>>,
       <<n + ng, n + 2 * ng>> >>

\* NodeBasedMeshNumberRefine adding one node layer to the cells, not two
NodeBasedMeshNumberRefineOneLayer(s) ==
    LET nz == s.nz + 1
        ny == s.ny + 1
        nx == s.nx + 1
        kMax == nz + 2 * s.ng
        jMax == ny + 2 * s.ng
        iMax == nx + 2 * s.ng
    IN  [s EXCEPT !.nz = nz, !.ny = ny, !.nx = nx,
                  !.kMax = kMax, !.jMax = jMax, !.iMax = iMax,
                  !.nMax = kMax * jMax * iMax]

\* NodeBasedMeshNumberRefine padding the node layers on one side only
NodeBasedMeshNumberRefineOneSide(s) ==
    LET nz == s.nz + 2
        ny == s.ny + 2
        nx == s.nx + 2
        kMax == nz + s.ng
        jMax == ny + s.ng
        iMax == nx + s.ng
    IN  [s EXCEPT !.nz = nz, !.ny = ny, !.nx = nx,
                  !.kMax = kMax, !.jMax = jMax, !.iMax = iMax,
                  !.nMax = kMax * jMax * iMax]

NodeBasedMeshNumberRefine(s) ==
    LET nz == s.nz + 2
        ny == s.ny + 2
        nx == s.nx + 2
        kMax == nz + 2 * s.ng
        jMax == ny + 2 * s.ng
        iMax == nx + 2 * s.ng
    IN  [s EXCEPT !.nz = nz, !.ny = ny, !.nx = nx,
                  !.kMax = kMax, !.jMax = jMax, !.iMax = iMax,
                  !.nMax = kMax * jMax * iMax]

InitializeSpace(s, f) ==
    LET dz == RDiv(RDiv(RSub(s.zMax, s.zMin), R(s.nz - 1)), f.refLength)
        dy == RDiv(RDiv(RSub(s.yMax, s.yMin), R(s.ny - 1)), f.refLength)
        dx == RDiv(RDiv(RSub(s.xMax, s.xMin), R(s.nx - 1)), f.refLength)
    IN  [s EXCEPT !.dz = dz, !.dy = dy, !.dx = dx,
                  !.xMax = RDiv(s.xMax, f.refLength),
                  !.yMax = RDiv(s.yMax, f.refLength),
                  !.zMax = RDiv(s.zMax, f.refLength),
                  !.xMin = RDiv(s.xMin, f.refLength),
                  !.yMin = RDiv(s.yMin, f.refLength),
                  !.zMin = RDiv(s.zMin, f.refLength),
                  !.ddx = RDiv(R(1), dx),
                  !.ddy = RDiv(R(1), dy),
                  !.ddz = RDiv(R(1), dz),
                  !.tinyL = RMul(<<1, 1000>>, MinReal(dz, MinReal(dx, dy)))]

\* InitializeTime replacing a step limit of zero too
InitializeTimeZeroToo(t, f) ==
    [t EXCEPT !.totalTime = RDiv(RMul(t.totalTime, f.refVelocity), f.refLength),
              !.totalStep = IF 0 >= t.totalStep THEN 9000000 ELSE t.totalStep]

InitializeTime(t, f) ==
    [t EXCEPT !.totalTime = RDiv(RMul(t.totalTime, f.refVelocity), f.refLength),
              !.totalStep = IF 0 > t.totalStep THEN 9000000 ELSE t.totalStep]

\* The universal gas constant 8.314462175 is kept as a unit: gasR is stored as
\* a multiple of it, and refMa (a square root) as refMa2G = refMa^2 * 8.314462175.
InitializeFlow(f) ==
    LET gamma == <<7, 5>>
        refMa2G == RDiv(RMul(f.refVelocity, f.refVelocity),
                        RMul(gamma, f.refTemperature))
        gasR == RDiv(R(1), RMul(gamma, refMa2G))
    IN  [f EXCEPT !.gamma = gamma,
                  !.gammaMinusOne = RSub(gamma, R(1)),
                  !.refMa2G = refMa2G,
                  !.refMu = RDiv(f.refMu, RMul(RMul(f.refDensity, f.refVelocity), f.refLength)),
                  !.gasR = gasR,
                  !.cv = RDiv(gasR, RSub(gamma, R(1)))]

ComputeCFDParameters ==
    /\ pc = "start"
    /\ space' = InitializeSpace(NodeBasedMeshNumberRefine(space), flow)
    /\ time' = InitializeTime(time, flow)
    /\ flow' = InitializeFlow(flow)
    /\ pc' = "params"
    /\ UNCHANGED <<part, particle, nodeFlag, geoID, located, caseFile, geoFile, hist,
                   kernel, varFile, particleFile>>

(***************************************************************************)
(* Domain partition: box 0 is the entire padded domain, box 12 the         *)
(* interior node layers (range comment of NodeBasedMeshNumberRefine). The  *)
(* boxes between them keep the empty range main() gives them. subN is the  *)
(* number of boxes the exporter writes, counted from box 0.                *)
(***************************************************************************)
PartIds == 0..12

SubNs == {1, 13}

PartRange(lo, hi) == [p \in PartIds |-> IF p = 0 THEN lo ELSE IF p = 12 THEN hi ELSE 0]

\* DomainPartition with the entire padded domain as the interior box
DomainPartitionWhole ==
    /\ pc = "params"
    /\ \E subN \in SubNs :
        part' = [subN |-> subN,
                 kSub |-> PartRange(0, 0),
                 kSup |-> PartRange(space.nz + 2 * space.ng, space.nz + 2 * space.ng),
                 jSub |-> PartRange(0, 0),
                 jSup |-> PartRange(space.ny + 2 * space.ng, space.ny + 2 * space.ng),
                 iSub |-> PartRange(0, 0),
                 iSup |-> PartRange(space.nx + 2 * space.ng, space.nx + 2 * space.ng)]
    /\ pc' = "part"
    /\ UNCHANGED <<space, time, flow, particle, nodeFlag, geoID, located, caseFile,
                   geoFile, hist, kernel, varFile, particleFile>>

DomainPartition ==
    /\ pc = "params"
    /\ \E subN \in SubNs :
        part' = [subN |-> subN,
                 kSub |-> PartRange(0, space.ng + 1),
                 kSup |-> PartRange(space.nz + 2 * space.ng, space.nz + space.ng - 1),
                 jSub |-> PartRange(0, space.ng + 1),
                 jSup |-> PartRange(space.ny + 2 * space.ng, space.ny + space.ng - 1),
                 iSub |-> PartRange(0, space.ng + 1),
                 iSup |-> PartRange(space.nx + 2 * space.ng, space.nx + space.ng - 1)]
    /\ pc' = "part"
    /\ UNCHANGED <<space, time, flow, particle, nodeFlag, geoID, located, caseFile,
                   geoFile, hist, kernel, varFile, particleFile>>

\* The nodes of box p in loop order: k outermost, then j, i innermost.
BoxCount(pt, p) ==
    (pt.kSup[p] - pt.kSub[p]) * (pt.jSup[p] - pt.jSub[p]) * (pt.iSup[p] - pt.iSub[p])

BoxNodes(pt, p) ==
    LET ni == pt.iSup[p] - pt.iSub[p]
        nj == pt.jSup[p] - pt.jSub[p]
    IN  [m \in 1..BoxCount(pt, p) |->
            <<pt.kSub[p] + ((m - 1) \div (nj * ni)),
              pt.jSub[p] + (((m - 1) \div ni) % nj),
              pt.iSub[p] + ((m - 1) % ni)>>]

(***************************************************************************)
(* Ghost-cell immersed-boundary classifier                                 *)
(***************************************************************************)
\* LocateSolidGeometry, IdentifyGhostCells: the index expressions of a node
\* and of its six neighbours
Idx(s, k, j, i) == (k * s.jMax + j) * s.iMax + i
IdxW(s, k, j, i) == (k * s.jMax + j) * s.iMax + i - 1
IdxE(s, k, j, i) == (k * s.jMax + j) * s.iMax + i + 1
IdxS(s, k, j, i) == (k * s.jMax + j - 1) * s.iMax + i
IdxN(s, k, j, i) == (k * s.jMax + j + 1) * s.iMax + i
IdxF(s, k, j, i) == ((k - 1) * s.jMax + j) * s.iMax + i
IdxB(s, k, j, i) == ((k + 1) * s.jMax + j) * s.iMax + i

\* LocateSolidGeometry, the test of one node against one body
Distance(s, b, k, j, i) ==
    LET distX == Pow2(RSub(RMul(R(i - s.ng), s.dx), R(b.x)))
        distY == Pow2(RSub(RMul(R(j - s.ng), s.dy), R(b.y)))
        distZ == Pow2(RSub(RMul(R(k - s.ng), s.dz), R(b.z)))
        radius == Pow2(R(b.r))
    IN  RSub(RAdd(RAdd(distX, distY), distZ), radius)

\* LocateNode counting a node on the surface as inside
RECURSIVE LocateNodeInclusive(_, _, _, _, _, _, _)
LocateNodeInclusive(s, p, k, j, i, geoCount, cell) ==
    IF geoCount >= Len(p) THEN cell
    ELSE LocateNodeInclusive(s, p, k, j, i, geoCount + 1,
            IF ~RLess(R(0), Distance(s, p[geoCount + 1], k, j, i))
            THEN <<-1, geoCount>>
            ELSE cell)

\* LocateNode binding a node to the first body that contains it
RECURSIVE LocateNodeFirstBody(_, _, _, _, _, _, _)
LocateNodeFirstBody(s, p, k, j, i, geoCount, cell) ==
    IF geoCount >= Len(p) THEN cell
    ELSE LocateNodeFirstBody(s, p, k, j, i, geoCount + 1,
            IF RLess(Distance(s, p[geoCount + 1], k, j, i), R(0)) /\ cell[1] # -1
            THEN <<-1, geoCount>>
            ELSE cell)

\* LocateSolidGeometry, the loop over the bodies for one node; cell is
\* <<flag, geoID>> of the node, geoCount the 0-based body index.
RECURSIVE LocateNode(_, _, _, _, _, _, _)
LocateNode(s, p, k, j, i, geoCount, cell) ==
    IF geoCount >= Len(p) THEN cell
    ELSE LocateNode(s, p, k, j, i, geoCount + 1,
            IF RLess(Distance(s, p[geoCount + 1], k, j, i), R(0))
            THEN <<-1, geoCount>>
            ELSE cell)

NoBody == -1

\* LocateLoop without the reset to fluid
RECURSIVE LocateLoopNoReset(_, _, _, _, _)
LocateLoopNoReset(s, p, nodes, m, fg) ==
    IF m > Len(nodes) THEN fg
    ELSE LET k == nodes[m][1]
             j == nodes[m][2]
             i == nodes[m][3]
             idx == Idx(s, k, j, i)
             cell == LocateNode(s, p, k, j, i, 0, <<fg[1][idx], fg[2][idx]>>)
         IN  LocateLoopNoReset(s, p, nodes, m + 1,
                               <<[fg[1] EXCEPT ![idx] = cell[1]],
                                 [fg[2] EXCEPT ![idx] = cell[2]]>>)

\* LocateSolidGeometry: the loop over box 12; every node is reset to fluid
\* and then tested against every body. fg is <<flag array, geoID array>>.
RECURSIVE LocateLoop(_, _, _, _, _)
LocateLoop(s, p, nodes, m, fg) ==
    IF m > Len(nodes) THEN fg
    ELSE LET k == nodes[m][1]
             j == nodes[m][2]
             i == nodes[m][3]
             idx == Idx(s, k, j, i)
             cell == LocateNode(s, p, k, j, i, 0, <<0, fg[2][idx]>>)
         IN  LocateLoop(s, p, nodes, m + 1,
                        <<[fg[1] EXCEPT ![idx] = cell[1]],
                          [fg[2] EXCEPT ![idx] = cell[2]]>>)

LocateSolidGeometry(s, p, pt, flags, geo) ==
    LocateLoop(s, p, BoxNodes(pt, 12), 1, <<flags, geo>>)

\* NeighbourProduct without the neighbour at the back
NeighbourProductNoBack(s, flags, k, j, i) ==
    flags[IdxW(s, k, j, i)] * flags[IdxE(s, k, j, i)] *
    flags[IdxS(s, k, j, i)] * flags[IdxN(s, k, j, i)] *
    flags[IdxF(s, k, j, i)]

\* IdentifyGhostCells, the product of the six neighbour flags
NeighbourProduct(s, flags, k, j, i) ==
    flags[IdxW(s, k, j, i)] * flags[IdxE(s, k, j, i)] *
    flags[IdxS(s, k, j, i)] * flags[IdxN(s, k, j, i)] *
    flags[IdxF(s, k, j, i)] * flags[IdxB(s, k, j, i)]

\* GhostNode marking the promoted node as fluid
GhostNodeAsFluid(s, flags, k, j, i) ==
    LET idx == Idx(s, k, j, i)
    IN  IF flags[idx] = -1 /\ NeighbourProduct(s, flags, k, j, i) = 0
        THEN [flags EXCEPT ![idx] = 0]
        ELSE flags

\* IdentifyGhostCells, one node, updating the flag array in place
GhostNode(s, flags, k, j, i) ==
    LET idx == Idx(s, k, j, i)
    IN  IF flags[idx] = -1 /\ NeighbourProduct(s, flags, k, j, i) = 0
        THEN [flags EXCEPT ![idx] = 1]
        ELSE flags

RECURSIVE GhostLoop(_, _, _, _)
GhostLoop(s, flags, nodes, m) ==
    IF m > Len(nodes) THEN flags
    ELSE GhostLoop(s, GhostNode(s, flags, nodes[m][1], nodes[m][2], nodes[m][3]),
                   nodes, m + 1)

IdentifyGhostCells(s, pt, flags) == GhostLoop(s, flags, BoxNodes(pt, 12), 1)

\* ComputeDomainGeometryGCIBM: <<flag array, geoID array>> after both passes,
\* and the flag array as LocateSolidGeometry left it
ComputeGeometry(s, p, pt, flags, geo) ==
    LET fg == LocateSolidGeometry(s, p, pt, flags, geo)
    IN  <<IdentifyGhostCells(s, pt, fg[1]), fg[2], fg[1]>>

\* Spherical bodies (centre and radius) and the body lists handed to the
\* classifier: none, one body, two disjoint bodies, two overlapping bodies
\* in both orders.
Body(x, y, z, r) == [x |-> x, y |-> y, z |-> z, r |-> r]
BodySet == {Body(1, 1, 1, 1), Body(1, 1, 1, 2), Body(2, 1, 1, 1),
            Body(1, 2, 1, 1), Body(1, 1, 2, 1)}
BodyLists ==
    {<< >>} \cup {<<b>> : b \in BodySet}
    \cup {<<Body(1, 1, 1, 1), Body(1, 1, 1, 2)>>,
          <<Body(1, 1, 1, 2), Body(1, 1, 1, 1)>>,
          <<Body(2, 1, 1, 1), Body(1, 1, 1, 2)>>,
          <<Body(1, 2, 1, 1), Body(1, 1, 2, 1)>>,
          <<Body(1, 1, 1, 1), Body(2, 1, 1, 1)>>,
          <<Body(1, 1, 1, 2), Body(2, 1, 1, 1)>>}

\* The entire domain initialised as fluid
EntireDomainFluid(s) == [idx \in 0..(s.nMax - 1) |-> 0]

\* InitializeDomainGeometryGCIBM, the first loop: the entire domain gets type 2
EntireDomainExterior(s) == [idx \in 0..(s.nMax - 1) |-> 2]

InitializeDomainGeometryGCIBM(p) ==
    /\ pc = "part"
    /\ LET flags2 == EntireDomainExterior(space)
           geo0 == [idx \in 0..(space.nMax - 1) |-> NoBody]
           g == ComputeGeometry(space, p, part, flags2, geo0)
       IN  /\ nodeFlag' = g[1]
           /\ geoID' = g[2]
           /\ located' = g[3]
    /\ particle' = p
    /\ pc' = "geom"
    /\ UNCHANGED <<space, time, flow, part, caseFile, geoFile, hist, kernel, varFile,
                   particleFile>>

\* The time loop calls it once per step; the model stops after MaxSteps steps.
ComputeDomainGeometryGCIBM(p) ==
    /\ pc = "geom"
    /\ time.stepCount < MaxSteps
    /\ LET g == ComputeGeometry(space, p, part, nodeFlag, geoID)
       IN  /\ nodeFlag' = g[1]
           /\ geoID' = g[2]
           /\ located' = g[3]
    /\ particle' = p
    /\ time' = [time EXCEPT !.stepCount = @ + 1]
    /\ UNCHANGED <<pc, space, flow, part, caseFile, geoFile, hist, kernel, varFile,
                   particleFile>>

(***************************************************************************)
(* EnSight exporter                                                        *)
(***************************************************************************)
\* The boxes written, in the order of the loop partCount < part->subN
ExportParts(pt) == [n \in 1..pt.subN |-> n - 1]

NoCaseFile == [exists |-> FALSE]
NoGeoFile == [name |-> -1]

\* Decimal digits of n >= 0, as printed by %d
DigitChars == <<"0", "1", "2", "3", "4", "5", "6", "7", "8", "9">>

RECURSIVE Digits(_)
Digits(n) ==
    IF n < 10 THEN <<DigitChars[n + 1]>>
    ELSE Append(Digits(n \div 10), DigitChars[(n % 10) + 1])

Blanks(n) == [c \in 1..n |-> " "]

\* The integer a reader takes from a text with %d: blanks are skipped, then
\* the digits up to the first other character are read; -1 if there is none
RECURSIVE ReadDigits(_, _, _)
ReadDigits(text, at, value) ==
    IF at > Len(text) \/ text[at] = " " THEN value
    ELSE ReadDigits(text, at + 1,
                    10 * value + (CHOOSE d \in 0..9 : DigitChars[d + 1] = text[at]))

RECURSIVE ParseInt(_, _)
ParseInt(text, at) ==
    IF at > Len(text) THEN -1
    ELSE IF text[at] = " " THEN ParseInt(text, at + 1)
    ELSE ReadDigits(text, at, 0)

\* The value printed by %.6g for 0 or for a time in [1/10, 10): the time
\* rounded to six significant digits
FormatG6(t) ==
    LET scale == IF RLess(t, R(1)) THEN 1000000 ELSE 100000
    IN  IF t[1] = 0 THEN R(0)
        ELSE Rat((2 * t[1] * scale + t[2]) \div (2 * t[2]), scale)

\* What follows "time values:  " in the transient case file: line breaks,
\* time values, and text that is neither
NewLine == [kind |-> "newline", value |-> R(0)]
TimeValue(t) == [kind |-> "time", value |-> FormatG6(t)]
NumberOfStepsText(n) == [kind |-> "number of steps:", value |-> R(n)]

\* InitializeEnsightTransientCaseFile: the text after "number of steps:" and
\* what follows "time values:  "
InitializeEnsightTransientCaseFile ==
    [exists |-> TRUE, steps |-> Blanks(10) \o <<"0">>, values |-> << >>]

\* Where the output of a stream opened "r+" goes when it follows the input of
\* fgets directly, with no file positioning call between them: the C
\* standard leaves it undefined. A library that keeps one position for
\* reading and writing puts it behind the line read last ("line"); a library
\* that drops its read buffer puts it where the buffered read of the file
\* ended, at the end of this short file ("end").
StreamLandings == {"line", "end"}

\* WriteEnsightCaseFile, the update of the transient case file: the number of
\* steps is printed over the start of the old line or, where the stream
\* lands at the end, behind the time values; the time is appended.
WriteEnsightCaseFile(cf, t, landing) ==
    LET text == Blanks(3) \o Digits(t.outputCount + 1)
        rest == IF Len(text) < Len(cf.steps)
                THEN SubSeq(cf.steps, Len(text) + 1, Len(cf.steps))
                ELSE << >>
        line == IF (t.outputCount % 5) = 0 THEN <<NewLine>> ELSE << >>
        stamp == <<TimeValue(t.currentTime)>>
    IN  IF landing = "line"
        THEN [cf EXCEPT !.steps = text \o rest,
                        !.values = @ \o line \o stamp]
        ELSE [cf EXCEPT !.values = @ \o <<NumberOfStepsText(t.outputCount + 1)>>
                                     \o line \o stamp]

\* BlankID with the lower limit included
BlankIDInclusive(flag, offset) ==
    IF (-offset <= flag) /\ (offset > flag) THEN 1 ELSE 0

\* BlankID with the upper limit only
BlankIDUpperOnly(flag, offset) ==
    IF offset > flag THEN 1 ELSE 0

\* WriteEnsightGeometryFile, the iblank entry of one node
BlankID(flag, offset) ==
    IF (-offset < flag) /\ (offset > flag) THEN 1 ELSE 0

\* WriteEnsightGeometryFile, one part: node counts, coordinates and iblank
\* entries, each in loop order
GeometryPart(s, pt, flags, offset, p) ==
    LET nodes == BoxNodes(pt, p)
        \* the coordinate written for a node depends on one index only
        xs == [i \in pt.iSub[p]..(pt.iSup[p] - 1) |-> RAdd(s.xMin, RMul(R(i - s.ng), s.dx))]
        ys == [j \in pt.jSub[p]..(pt.jSup[p] - 1) |-> RAdd(s.yMin, RMul(R(j - s.ng), s.dy))]
        zs == [k \in pt.kSub[p]..(pt.kSup[p] - 1) |-> RAdd(s.zMin, RMul(R(k - s.ng), s.dz))]
    IN  [nodeCount |-> <<pt.iSup[p] - pt.iSub[p], pt.jSup[p] - pt.jSub[p],
                         pt.kSup[p] - pt.kSub[p]>>,
         x |-> [m \in DOMAIN nodes |-> xs[nodes[m][3]]],
         y |-> [m \in DOMAIN nodes |-> ys[nodes[m][2]]],
         z |-> [m \in DOMAIN nodes |-> zs[nodes[m][1]]],
         iblank |-> [m \in DOMAIN nodes |->
                        BlankID(flags[IndexNode(nodes[m][1], nodes[m][2], nodes[m][3],
                                                s.jMax, s.iMax)], offset)]]

WriteEnsightGeometryFile(s, pt, flags, name) ==
    LET offset == s.nodeFlagOffset
    IN  [name |-> name, offset |-> offset,
         parts |-> [n \in DOMAIN ExportParts(pt) |->
                       GeometryPart(s, pt, flags, offset, ExportParts(pt)[n])]]

(***************************************************************************)
(* Kernels of cfd_commons.c. Vectors keep the indices of the C arrays:     *)
(* U[0..4] = (rho, rho u, rho v, rho w, rho eT), Uo[0..5] = (rho, u, v, w,  *)
(* p, T), F[0..4].                                                         *)
(***************************************************************************)
Half == <<1, 2>>

\* flow->gamma = 1.4
GammaAir == <<7, 5>>

Vec5(a, b, c, d, e) == [n \in 0..4 |-> <<a, b, c, d, e>>[n + 1]]
Vec6(a, b, c, d, e, f) == [n \in 0..5 |-> <<a, b, c, d, e, f>>[n + 1]]

\* U[1] * U[1] + U[2] * U[2] + U[3] * U[3]
SumSquares(a, b, c) == RAdd(RAdd(RMul(a, a), RMul(b, b)), RMul(c, c))

MinInt(x, y) == IF x < y THEN x ELSE y

MaxInt(x, y) == IF x > y THEN x ELSE y

\* ValidNodeSpace with nMax as the last valid node
ValidNodeSpaceInclusive(n, nMin, nMax) == MinInt(nMax, MaxInt(nMin, n))

ValidNodeSpace(n, nMin, nMax) == MinInt(nMax - 1, MaxInt(nMin, n))

\* The conversion (int) of a real value: the fraction is discarded, towards zero
Trunc(a) == IF a[1] >= 0 THEN a[1] \div a[2] ELSE -((-a[1]) \div a[2])

\* NodeSpace without the half grid distance shift
NodeSpaceNoShift(s, sMin, dds, ng) == Trunc(RMul(RSub(s, sMin), dds)) + ng

NodeSpace(s, sMin, dds, ng) == Trunc(RAdd(RMul(RSub(s, sMin), dds), Half)) + ng

\* (U[4] - 0.5 * (U[1]^2 + U[2]^2 + U[3]^2) / U[0])
InternalEnergy(U) ==
    RSub(U[4], RDiv(RMul(Half, SumSquares(U[1], U[2], U[3])), U[0]))

PrimitiveByConservative(gamma, gasR, U) ==
    LET p == RMul(InternalEnergy(U), RSub(gamma, R(1)))
    IN  Vec6(U[0], RDiv(U[1], U[0]), RDiv(U[2], U[0]), RDiv(U[3], U[0]),
             p, RDiv(p, RMul(U[0], gasR)))

ComputePressure(gamma, U) == RMul(InternalEnergy(U), RSub(gamma, R(1)))

ComputeTemperature(cv, U) == RDiv(InternalEnergy(U), RMul(U[0], cv))

\* ConservativeByPrimitive dividing the pressure by gamma
ConservativeByPrimitiveByGamma(gamma, Uo) ==
    Vec5(Uo[0], RMul(Uo[0], Uo[1]), RMul(Uo[0], Uo[2]), RMul(Uo[0], Uo[3]),
         RAdd(RMul(RMul(Half, Uo[0]), SumSquares(Uo[1], Uo[2], Uo[3])),
              RDiv(Uo[4], gamma)))

ConservativeByPrimitive(gamma, Uo) ==
    Vec5(Uo[0], RMul(Uo[0], Uo[1]), RMul(Uo[0], Uo[2]), RMul(Uo[0], Uo[3]),
         RAdd(RMul(RMul(Half, Uo[0]), SumSquares(Uo[1], Uo[2], Uo[3])),
              RDiv(Uo[4], RSub(gamma, R(1)))))

ConvectiveFluxZ(rho, u, v, w, eT, p) ==
    Vec5(RMul(rho, w),
         RMul(RMul(rho, w), u),
         RMul(RMul(rho, w), v),
         RAdd(RMul(RMul(rho, w), w), p),
         RMul(RAdd(RMul(rho, eT), p), w))

\* ConvectiveFluxY taking the y momentum flux for the z momentum flux
ConvectiveFluxYMixed(rho, u, v, w, eT, p) ==
    Vec5(RMul(rho, v),
         RMul(RMul(rho, v), u),
         RMul(RMul(rho, v), w),
         RAdd(RMul(RMul(rho, v), v), p),
         RMul(RAdd(RMul(rho, eT), p), v))

ConvectiveFluxY(rho, u, v, w, eT, p) ==
    Vec5(RMul(rho, v),
         RMul(RMul(rho, v), u),
         RAdd(RMul(RMul(rho, v), v), p),
         RMul(RMul(rho, v), w),
         RMul(RAdd(RMul(rho, eT), p), v))

ConvectiveFluxX(rho, u, v, w, eT, p) ==
    Vec5(RMul(rho, u),
         RAdd(RMul(RMul(rho, u), u), p),
         RMul(RMul(rho, u), v),
         RMul(RMul(rho, u), w),
         RMul(RAdd(RMul(rho, eT), p), u))

\* ComputeConvectiveFlux[s]: X, Y, Z
ConvectiveFlux(s, gamma, U) ==
    LET rho == U[0]
        u == RDiv(U[1], rho)
        v == RDiv(U[2], rho)
        w == RDiv(U[3], rho)
        eT == RDiv(U[4], rho)
        p == RMul(RMul(rho, RSub(eT, RMul(Half, SumSquares(u, v, w)))),
                  RSub(gamma, R(1)))
    IN  CASE s = 0 -> ConvectiveFluxX(rho, u, v, w, eT, p)
          [] s = 1 -> ConvectiveFluxY(rho, u, v, w, eT, p)
          [] s = 2 -> ConvectiveFluxZ(rho, u, v, w, eT, p)

(***************************************************************************)
(* The averaged state of two conservative states.                          *)
(***************************************************************************)
RECURSIVE ISqrtIn(_, _, _)
ISqrtIn(n, lo, hi) ==
    IF lo = hi THEN lo
    ELSE LET mid == (lo + hi + 1) \div 2
         IN  IF mid * mid <= n THEN ISqrtIn(n, mid, hi) ELSE ISqrtIn(n, lo, mid - 1)

\* The integer part of the square root of n >= 0
ISqrt(n) == ISqrtIn(n, 0, IF n < 0 THEN 0 ELSE IF n < 46340 THEN n ELSE 46340)

\* a is the square of a rational
HasRoot(a) == a[1] >= 0 /\ ISqrt(a[1]) * ISqrt(a[1]) = a[1]
                        /\ ISqrt(a[2]) * ISqrt(a[2]) = a[2]

\* sqrt, exact on the squares of rationals, the arguments of the calls below
Sqrt(a) == Rat(ISqrt(a[1]), ISqrt(a[2]))

\* hT of one side: (E / rho) * gamma - 0.5 * (u*u + v*v + w*w) * (gamma - 1)
SideEnthalpy(gamma, U) ==
    LET rho == U[0]
        u == RDiv(U[1], rho)
        v == RDiv(U[2], rho)
        w == RDiv(U[3], rho)
    IN  RSub(RMul(RDiv(U[4], rho), gamma),
             RMul(RMul(Half, SumSquares(u, v, w)), RSub(gamma, R(1))))

\* SymmetricAverage with the density ratio itself as the Roe weight
SymmetricAverageNoRoot(averager, gamma, UL, UR) ==
    LET rhoL == UL[0]
        uL == RDiv(UL[1], rhoL)
        vL == RDiv(UL[2], rhoL)
        wL == RDiv(UL[3], rhoL)
        hTL == SideEnthalpy(gamma, UL)
        rhoR == UR[0]
        uR == RDiv(UR[1], rhoR)
        vR == RDiv(UR[2], rhoR)
        wR == RDiv(UR[3], rhoR)
        hTR == SideEnthalpy(gamma, UR)
        D == IF averager = 1 THEN RDiv(rhoR, rhoL) ELSE R(1)
        Uo1 == RDiv(RAdd(uL, RMul(D, uR)), RAdd(R(1), D))
        Uo2 == RDiv(RAdd(vL, RMul(D, vR)), RAdd(R(1), D))
        Uo3 == RDiv(RAdd(wL, RMul(D, wR)), RAdd(R(1), D))
        Uo4 == RDiv(RAdd(hTL, RMul(D, hTR)), RAdd(R(1), D))
        Uo5 == Sqrt(RMul(RSub(gamma, R(1)),
                         RSub(Uo4, RMul(Half, SumSquares(Uo1, Uo2, Uo3)))))
    IN  [n \in 1..5 |-> CASE n = 1 -> Uo1 [] n = 2 -> Uo2 [] n = 3 -> Uo3
                          [] n = 4 -> Uo4 [] n = 5 -> Uo5]

\* The entries of Uo that SymmetricAverage assigns, by index
SymmetricAverage(averager, gamma, UL, UR) ==
    LET rhoL == UL[0]
        uL == RDiv(UL[1], rhoL)
        vL == RDiv(UL[2], rhoL)
        wL == RDiv(UL[3], rhoL)
        hTL == SideEnthalpy(gamma, UL)
        rhoR == UR[0]
        uR == RDiv(UR[1], rhoR)
        vR == RDiv(UR[2], rhoR)
        wR == RDiv(UR[3], rhoR)
        hTR == SideEnthalpy(gamma, UR)
        D == IF averager = 1 THEN Sqrt(RDiv(rhoR, rhoL)) ELSE R(1)
        Uo1 == RDiv(RAdd(uL, RMul(D, uR)), RAdd(R(1), D))
        Uo2 == RDiv(RAdd(vL, RMul(D, vR)), RAdd(R(1), D))
        Uo3 == RDiv(RAdd(wL, RMul(D, wR)), RAdd(R(1), D))
        Uo4 == RDiv(RAdd(hTL, RMul(D, hTR)), RAdd(R(1), D))
        Uo5 == Sqrt(RMul(RSub(gamma, R(1)),
                         RSub(Uo4, RMul(Half, SumSquares(Uo1, Uo2, Uo3)))))
    IN  [n \in 1..5 |-> CASE n = 1 -> Uo1 [] n = 2 -> Uo2 [] n = 3 -> Uo3
                          [] n = 4 -> Uo4 [] n = 5 -> Uo5]

\* Eigenvalue with the x velocity in every direction
EigenvalueFixedAxis(s, Uo) ==
    Vec5(RSub(Uo[1], Uo[5]), Uo[1], Uo[1], Uo[1], RAdd(Uo[1], Uo[5]))

Eigenvalue(s, Uo) ==
    Vec5(RSub(Uo[s + 1], Uo[5]), Uo[s + 1], Uo[s + 1], Uo[s + 1],
         RAdd(Uo[s + 1], Uo[5]))

(***************************************************************************)
(* Eigenvalue splitting. A value that holds a square root is kept exact as *)
(* <<a, b, x>> = a + b * sqrt(x), with a, b, x rational and x >= 0.         *)
(***************************************************************************)
Surd(a, b, x) == <<a, b, x>>

\* The sum of two values over the same square root
SurdAdd(p, q) == <<RAdd(p[1], q[1]), RAdd(p[2], q[2]), IF p[2] = R(0) THEN q[3] ELSE p[3]>>

\* a + b * sqrt(x) = r
SurdEquals(p, r) ==
    IF p[2] = R(0) \/ p[3] = R(0) THEN p[1] = r
    ELSE LET t == RDiv(RSub(r, p[1]), p[2])
         IN  ~RLess(t, R(0)) /\ RMul(t, t) = p[3]

\* a + b * sqrt(x) >= 0
SurdNonNegative(p) ==
    LET a2 == RMul(p[1], p[1])
        b2x == RMul(RMul(p[2], p[2]), p[3])
    IN  IF ~RLess(p[2], R(0))
        THEN ~RLess(p[1], R(0)) \/ ~RLess(b2x, a2)
        ELSE ~RLess(p[1], R(0)) /\ ~RLess(a2, b2x)

SurdNonPositive(p) == SurdNonNegative(<<RSub(R(0), p[1]), RSub(R(0), p[2]), p[3]>>)

\* fabs
RAbs(a) == IF RLess(a, R(0)) THEN RSub(R(0), a) ELSE a

\* LocalLaxFriedrichs without the fabs of the local maximum
LocalLaxFriedrichsNoAbs(Lambda) ==
    LET lambdaStar == RSub(RAdd(Lambda[2], Lambda[4]), Lambda[2])
    IN  [LambdaP |-> [row \in 0..4 |->
                         Surd(RMul(Half, RAdd(Lambda[row], lambdaStar)), R(0), R(0))],
         LambdaN |-> [row \in 0..4 |->
                         Surd(RMul(Half, RSub(Lambda[row], lambdaStar)), R(0), R(0))]]

LocalLaxFriedrichs(Lambda) ==
    LET lambdaStar == RSub(RAdd(RAbs(Lambda[2]), Lambda[4]), Lambda[2])
    IN  [LambdaP |-> [row \in 0..4 |->
                         Surd(RMul(Half, RAdd(Lambda[row], lambdaStar)), R(0), R(0))],
         LambdaN |-> [row \in 0..4 |->
                         Surd(RMul(Half, RSub(Lambda[row], lambdaStar)), R(0), R(0))]]

\* StegerWarming with the operands of the negative part exchanged
StegerWarmingSignSlip(Lambda) ==
    LET epsilon == <<1, 1000>>
        x(row) == RAdd(RMul(Lambda[row], Lambda[row]), RMul(epsilon, epsilon))
    IN  [LambdaP |-> [row \in 0..4 |->
                         Surd(RMul(Half, Lambda[row]), Half, x(row))],
         LambdaN |-> [row \in 0..4 |->
                         Surd(RSub(R(0), RMul(Half, Lambda[row])), Half, x(row))]]

StegerWarming(Lambda) ==
    LET epsilon == <<1, 1000>>
        x(row) == RAdd(RMul(Lambda[row], Lambda[row]), RMul(epsilon, epsilon))
    IN  [LambdaP |-> [row \in 0..4 |->
                         Surd(RMul(Half, Lambda[row]), Half, x(row))],
         LambdaN |-> [row \in 0..4 |->
                         Surd(RMul(Half, Lambda[row]), RSub(R(0), Half), x(row))]]

\* SplitEigenvalue[splitter]: LocalLaxFriedrichs, StegerWarming
EigenvalueSplitting(splitter, Lambda) ==
    CASE splitter = 0 -> LocalLaxFriedrichs(Lambda)
      [] splitter = 1 -> StegerWarming(Lambda)

(***************************************************************************)
(* Eigenvector matrices: L[row][col] and R[row][col], rows and columns 0..4 *)
(***************************************************************************)
Mat5(r0, r1, r2, r3, r4) ==
    [row \in 0..4 |-> [col \in 0..4 |-> <<r0, r1, r2, r3, r4>>[row + 1][col + 1]]]

EigenvectorLZ(u, v, w, c, q, b, d) ==
    Mat5(
        <<RAdd(RMul(b, q), RMul(d, w)),
          RMul(RSub(R(0), b), u),
          RMul(RSub(R(0), b), v),
          RSub(RMul(RSub(R(0), b), w), d),
          b>>,
        <<RMul(RMul(RMul(RSub(R(0), R(2)), b), q), u),
          RAdd(RMul(RMul(RMul(R(2), b), u), u), R(1)),
          RMul(RMul(RMul(R(2), b), v), u),
          RMul(RMul(RMul(R(2), b), w), u),
          RMul(RMul(RSub(R(0), R(2)), b), u)>>,
        <<RMul(RMul(RMul(RSub(R(0), R(2)), b), q), v),
          RMul(RMul(RMul(R(2), b), v), u),
          RAdd(RMul(RMul(RMul(R(2), b), v), v), R(1)),
          RMul(RMul(RMul(R(2), b), w), v),
          RMul(RMul(RSub(R(0), R(2)), b), v)>>,
        <<RAdd(RMul(RMul(RSub(R(0), R(2)), b), q), R(1)),
          RMul(RMul(R(2), b), u),
          RMul(RMul(R(2), b), v),
          RMul(RMul(R(2), b), w),
          RMul(RSub(R(0), R(2)), b)>>,
        <<RSub(RMul(b, q), RMul(d, w)),
          RMul(RSub(R(0), b), u),
          RMul(RSub(R(0), b), v),
          RAdd(RMul(RSub(R(0), b), w), d),
          b>>)

EigenvectorLY(u, v, w, c, q, b, d) ==
    Mat5(
        <<RAdd(RMul(b, q), RMul(d, v)),
          RMul(RSub(R(0), b), u),
          RSub(RMul(RSub(R(0), b), v), d),
          RMul(RSub(R(0), b), w),
          b>>,
        <<RMul(RMul(RMul(RSub(R(0), R(2)), b), q), u),
          RAdd(RMul(RMul(RMul(R(2), b), u), u), R(1)),
          RMul(RMul(RMul(R(2), b), v), u),
          RMul(RMul(RMul(R(2), b), w), u),
          RMul(RMul(RSub(R(0), R(2)), b), u)>>,
        <<RAdd(RMul(RMul(RSub(R(0), R(2)), b), q), R(1)),
          RMul(RMul(R(2), b), u),
          RMul(RMul(R(2), b), v),
          RMul(RMul(R(2), b), w),
          RMul(RSub(R(0), R(2)), b)>>,
        <<RMul(RMul(RMul(RSub(R(0), R(2)), b), q), w),
          RMul(RMul(RMul(R(2), b), w), u),
          RMul(RMul(RMul(R(2), b), w), v),
          RAdd(RMul(RMul(RMul(R(2), b), w), w), R(1)),
          RMul(RMul(RSub(R(0), R(2)), b), w)>>,
        <<RSub(RMul(b, q), RMul(d, v)),
          RMul(RSub(R(0), b), u),
          RAdd(RMul(RSub(R(0), b), v), d),
          RMul(RSub(R(0), b), w),
          b>>)

EigenvectorLX(u, v, w, c, q, b, d) ==
    Mat5(
        <<RAdd(RMul(b, q), RMul(d, u)),
          RSub(RMul(RSub(R(0), b), u), d),
          RMul(RSub(R(0), b), v),
          RMul(RSub(R(0), b), w),
          b>>,
        <<RAdd(RMul(RMul(RSub(R(0), R(2)), b), q), R(1)),
          RMul(RMul(R(2), b), u),
          RMul(RMul(R(2), b), v),
          RMul(RMul(R(2), b), w),
          RMul(RSub(R(0), R(2)), b)>>,
        <<RMul(RMul(RMul(RSub(R(0), R(2)), b), q), v),
          RMul(RMul(RMul(R(2), b), v), u),
          RAdd(RMul(RMul(RMul(R(2), b), v), v), R(1)),
          RMul(RMul(RMul(R(2), b), w), v),
          RMul(RMul(RSub(R(0), R(2)), b), v)>>,
        <<RMul(RMul(RMul(RSub(R(0), R(2)), b), q), w),
          RMul(RMul(RMul(R(2), b), w), u),
          RMul(RMul(RMul(R(2), b), w), v),
          RAdd(RMul(RMul(RMul(R(2), b), w), w), R(1)),
          RMul(RMul(RSub(R(0), R(2)), b), w)>>,
        <<RSub(RMul(b, q), RMul(d, u)),
          RAdd(RMul(RSub(R(0), b), u), d),
          RMul(RSub(R(0), b), v),
          RMul(RSub(R(0), b), w),
          b>>)

\* ComputeEigenvectorL[s]: X, Y, Z
EigenvectorL(s, gamma, Uo) ==
    LET u == Uo[1]
        v == Uo[2]
        w == Uo[3]
        c == Uo[5]
        q == RMul(Half, SumSquares(u, v, w))
        b == RDiv(RSub(gamma, R(1)), RMul(RMul(R(2), c), c))
        d == RDiv(R(1), RMul(R(2), c))
    IN  CASE s = 0 -> EigenvectorLX(u, v, w, c, q, b, d)
          [] s = 1 -> EigenvectorLY(u, v, w, c, q, b, d)
          [] s = 2 -> EigenvectorLZ(u, v, w, c, q, b, d)

EigenvectorRZ(u, v, w, hT, c, q) ==
    Mat5(
        <<R(1),
          R(0),
          R(0),
          R(1),
          R(1)>>,
        <<u,
          R(1),
          R(0),
          R(0),
          u>>,
        <<v,
          R(0),
          R(1),
          R(0),
          v>>,
        <<RSub(w, c),
          R(0),
          R(0),
          w,
          RAdd(w, c)>>,
        <<RSub(hT, RMul(w, c)),
          u,
          v,
          RSub(RMul(w, w), q),
          RAdd(hT, RMul(w, c))>>)

EigenvectorRY(u, v, w, hT, c, q) ==
    Mat5(
        <<R(1),
          R(0),
          R(1),
          R(0),
          R(1)>>,
        <<u,
          R(1),
          R(0),
          R(0),
          u>>,
        <<RSub(v, c),
          R(0),
          v,
          R(0),
          RAdd(v, c)>>,
        <<w,
          R(0),
          R(0),
          R(1),
          w>>,
        <<RSub(hT, RMul(v, c)),
          u,
          RSub(RMul(v, v), q),
          w,
          RAdd(hT, RMul(v, c))>>)

\* EigenvectorRX with u + c for u - c in the first column
EigenvectorRXSignSlip(u, v, w, hT, c, q) ==
    Mat5(
        <<R(1),
          R(1),
          R(0),
          R(0),
          R(1)>>,
        <<RAdd(u, c),
          u,
          R(0),
          R(0),
          RAdd(u, c)>>,
        <<v,
          R(0),
          R(1),
          R(0),
          v>>,
        <<w,
          R(0),
          R(0),
          R(1),
          w>>,
        <<RSub(hT, RMul(u, c)),
          RSub(RMul(u, u), q),
          v,
          w,
          RAdd(hT, RMul(u, c))>>)

EigenvectorRX(u, v, w, hT, c, q) ==
    Mat5(
        <<R(1),
          R(1),
          R(0),
          R(0),
          R(1)>>,
        <<RSub(u, c),
          u,
          R(0),
          R(0),
          RAdd(u, c)>>,
        <<v,
          R(0),
          R(1),
          R(0),
          v>>,
        <<w,
          R(0),
          R(0),
          R(1),
          w>>,
        <<RSub(hT, RMul(u, c)),
          RSub(RMul(u, u), q),
          v,
          w,
          RAdd(hT, RMul(u, c))>>)

\* ComputeEigenvectorR[s]: X, Y, Z
EigenvectorR(s, Uo) ==
    LET u == Uo[1]
        v == Uo[2]
        w == Uo[3]
        hT == Uo[4]
        c == Uo[5]
        q == RMul(Half, SumSquares(u, v, w))
    IN  CASE s = 0 -> EigenvectorRX(u, v, w, hT, c, q)
          [] s = 1 -> EigenvectorRY(u, v, w, hT, c, q)
          [] s = 2 -> EigenvectorRZ(u, v, w, hT, c, q)

(***************************************************************************)
(* Viscous flux at a face. Sutherland's law holds the power T^1.5, so a    *)
(* flux is kept exact as its viscosity mu = refMu * Viscosity(.) and, for  *)
(* each component, the rational factor per that multiplies it:             *)
(* Fvhat[r] = mu * per[r]. The conductivity heatK = gamma * cv * mu / Pr   *)
(* is kept the same way, as its factor of mu.                              *)
(***************************************************************************)
Quarter == <<1, 4>>

\* 1.458e-6 * pow(T, 1.5) / (T + 110.4), kept by its argument
Viscosity(T) == [law |-> "Sutherland", T |-> T]

\* 0.71
PrandtlNumber == <<71, 100>>

NumericalDiffusiveFluxZ(tn, k, j, i, n, dd, node, model) ==
    LET X == 0
        Y == 1
        Z == 2
        idx == IndexNode(k, j, i, n[Y], n[X])
        idxW == IndexNode(k, j, i - 1, n[Y], n[X])
        idxE == IndexNode(k, j, i + 1, n[Y], n[X])
        idxS == IndexNode(k, j - 1, i, n[Y], n[X])
        idxN == IndexNode(k, j + 1, i, n[Y], n[X])
        idxB == IndexNode(k + 1, j, i, n[Y], n[X])
        idxWB == IndexNode(k + 1, j, i - 1, n[Y], n[X])
        idxEB == IndexNode(k + 1, j, i + 1, n[Y], n[X])
        idxSB == IndexNode(k + 1, j - 1, i, n[Y], n[X])
        idxNB == IndexNode(k + 1, j + 1, i, n[Y], n[X])
        q(at, c) == RDiv(node[at + 1].U[tn][c], node[at + 1].U[tn][0])
        temp(at) == ComputeTemperature(model.cv, node[at + 1].U[tn])
        u == q(idx, 1)
        v == q(idx, 2)
        w == q(idx, 3)
        T == temp(idx)
        uW == q(idxW, 1)
        wW == q(idxW, 3)
        uE == q(idxE, 1)
        wE == q(idxE, 3)
        vS == q(idxS, 2)
        wS == q(idxS, 3)
        vN == q(idxN, 2)
        wN == q(idxN, 3)
        uB == q(idxB, 1)
        vB == q(idxB, 2)
        wB == q(idxB, 3)
        TB == temp(idxB)
        uWB == q(idxWB, 1)
        wWB == q(idxWB, 3)
        uEB == q(idxEB, 1)
        wEB == q(idxEB, 3)
        vSB == q(idxSB, 2)
        wSB == q(idxSB, 3)
        vNB == q(idxNB, 2)
        wNB == q(idxNB, 3)
        dw_dx == RMul(RMul(Quarter, RSub(RSub(RAdd(wE, wEB), wW), wWB)), dd[X])
        du_dz == RMul(RSub(uB, u), dd[Z])
        dw_dy == RMul(RMul(Quarter, RSub(RSub(RAdd(wN, wNB), wS), wSB)), dd[Y])
        dv_dz == RMul(RSub(vB, v), dd[Z])
        du_dx == RMul(RMul(Quarter, RSub(RSub(RAdd(uE, uEB), uW), uWB)), dd[X])
        dv_dy == RMul(RMul(Quarter, RSub(RSub(RAdd(vN, vNB), vS), vSB)), dd[Y])
        dw_dz == RMul(RSub(wB, w), dd[Z])
        dT_dz == RMul(RSub(TB, T), dd[Z])
        uhat == RMul(Half, RAdd(u, uB))
        vhat == RMul(Half, RAdd(v, vB))
        what == RMul(Half, RAdd(w, wB))
        That == RMul(Half, RAdd(T, TB))
        mu == [refMu |-> model.refMu, viscosity |-> Viscosity(RMul(That, model.refT))]
        heatK == RDiv(RMul(model.gamma, model.cv), PrandtlNumber)
        divV == RAdd(RAdd(du_dx, dv_dy), dw_dz)
        TwoThirds == RDiv(R(2), R(3))
        Fvhat1 == RAdd(dw_dx, du_dz)
        Fvhat2 == RAdd(dw_dy, dv_dz)
        Fvhat3 == RSub(RMul(R(2), dw_dz), RMul(TwoThirds, divV))
        Fvhat4 == RAdd(RAdd(RAdd(RMul(heatK, dT_dz), RMul(Fvhat1, uhat)),
                            RMul(Fvhat2, vhat)), RMul(Fvhat3, what))
    IN  [mu |-> mu, per |-> Vec5(R(0), Fvhat1, Fvhat2, Fvhat3, Fvhat4)]

NumericalDiffusiveFluxY(tn, k, j, i, n, dd, node, model) ==
    LET X == 0
        Y == 1
        Z == 2
        idx == IndexNode(k, j, i, n[Y], n[X])
        idxW == IndexNode(k, j, i - 1, n[Y], n[X])
        idxE == IndexNode(k, j, i + 1, n[Y], n[X])
        idxF == IndexNode(k - 1, j, i, n[Y], n[X])
        idxB == IndexNode(k + 1, j, i, n[Y], n[X])
        idxN == IndexNode(k, j + 1, i, n[Y], n[X])
        idxWN == IndexNode(k, j + 1, i - 1, n[Y], n[X])
        idxEN == IndexNode(k, j + 1, i + 1, n[Y], n[X])
        idxFN == IndexNode(k - 1, j + 1, i, n[Y], n[X])
        idxBN == IndexNode(k + 1, j + 1, i, n[Y], n[X])
        q(at, c) == RDiv(node[at + 1].U[tn][c], node[at + 1].U[tn][0])
        temp(at) == ComputeTemperature(model.cv, node[at + 1].U[tn])
        u == q(idx, 1)
        v == q(idx, 2)
        w == q(idx, 3)
        T == temp(idx)
        uW == q(idxW, 1)
        vW == q(idxW, 2)
        uE == q(idxE, 1)
        vE == q(idxE, 2)
        vF == q(idxF, 2)
        wF == q(idxF, 3)
        vB == q(idxB, 2)
        wB == q(idxB, 3)
        uN == q(idxN, 1)
        vN == q(idxN, 2)
        wN == q(idxN, 3)
        TN == temp(idxN)
        uWN == q(idxWN, 1)
        vWN == q(idxWN, 2)
        uEN == q(idxEN, 1)
        vEN == q(idxEN, 2)
        vFN == q(idxFN, 2)
        wFN == q(idxFN, 3)
        vBN == q(idxBN, 2)
        wBN == q(idxBN, 3)
        dv_dx == RMul(RMul(Quarter, RSub(RSub(RAdd(vE, vEN), vW), vWN)), dd[X])
        du_dy == RMul(RSub(uN, u), dd[Y])
        dv_dy == RMul(RSub(vN, v), dd[Y])
        du_dx == RMul(RMul(Quarter, RSub(RSub(RAdd(uE, uEN), uW), uWN)), dd[X])
        dw_dz == RMul(RMul(Quarter, RSub(RSub(RAdd(wB, wBN), wF), wFN)), dd[Z])
        dv_dz == RMul(RMul(Quarter, RSub(RSub(RAdd(vB, vBN), vF), vFN)), dd[Z])
        dw_dy == RMul(RSub(wN, w), dd[Y])
        dT_dy == RMul(RSub(TN, T), dd[Y])
        uhat == RMul(Half, RAdd(u, uN))
        vhat == RMul(Half, RAdd(v, vN))
        what == RMul(Half, RAdd(w, wN))
        That == RMul(Half, RAdd(T, TN))
        mu == [refMu |-> model.refMu, viscosity |-> Viscosity(RMul(That, model.refT))]
        heatK == RDiv(RMul(model.gamma, model.cv), PrandtlNumber)
        divV == RAdd(RAdd(du_dx, dv_dy), dw_dz)
        TwoThirds == RDiv(R(2), R(3))
        Fvhat1 == RAdd(dv_dx, du_dy)
        Fvhat2 == RSub(RMul(R(2), dv_dy), RMul(TwoThirds, divV))
        Fvhat3 == RAdd(dv_dz, dw_dy)
        Fvhat4 == RAdd(RAdd(RAdd(RMul(heatK, dT_dy), RMul(Fvhat1, uhat)),
                            RMul(Fvhat2, vhat)), RMul(Fvhat3, what))
    IN  [mu |-> mu, per |-> Vec5(R(0), Fvhat1, Fvhat2, Fvhat3, Fvhat4)]

NumericalDiffusiveFluxX(tn, k, j, i, n, dd, node, model) ==
    LET X == 0
        Y == 1
        Z == 2
        idx == IndexNode(k, j, i, n[Y], n[X])
        idxS == IndexNode(k, j - 1, i, n[Y], n[X])
        idxN == IndexNode(k, j + 1, i, n[Y], n[X])
        idxF == IndexNode(k - 1, j, i, n[Y], n[X])
        idxB == IndexNode(k + 1, j, i, n[Y], n[X])
        idxE == IndexNode(k, j, i + 1, n[Y], n[X])
        idxSE == IndexNode(k, j - 1, i + 1, n[Y], n[X])
        idxNE == IndexNode(k, j + 1, i + 1, n[Y], n[X])
        idxFE == IndexNode(k - 1, j, i + 1, n[Y], n[X])
        idxBE == IndexNode(k + 1, j, i + 1, n[Y], n[X])
        q(at, c) == RDiv(node[at + 1].U[tn][c], node[at + 1].U[tn][0])
        temp(at) == ComputeTemperature(model.cv, node[at + 1].U[tn])
        u == q(idx, 1)
        v == q(idx, 2)
        w == q(idx, 3)
        T == temp(idx)
        uS == q(idxS, 1)
        vS == q(idxS, 2)
        uN == q(idxN, 1)
        vN == q(idxN, 2)
        uF == q(idxF, 1)
        wF == q(idxF, 3)
        uB == q(idxB, 1)
        wB == q(idxB, 3)
        uE == q(idxE, 1)
        vE == q(idxE, 2)
        wE == q(idxE, 3)
        TE == temp(idxE)
        uSE == q(idxSE, 1)
        vSE == q(idxSE, 2)
        uNE == q(idxNE, 1)
        vNE == q(idxNE, 2)
        uFE == q(idxFE, 1)
        wFE == q(idxFE, 3)
        uBE == q(idxBE, 1)
        wBE == q(idxBE, 3)
        du_dx == RMul(RSub(uE, u), dd[X])
        dv_dy == RMul(RMul(Quarter, RSub(RSub(RAdd(vN, vNE), vS), vSE)), dd[Y])
        dw_dz == RMul(RMul(Quarter, RSub(RSub(RAdd(wB, wBE), wF), wFE)), dd[Z])
        du_dy == RMul(RMul(Quarter, RSub(RSub(RAdd(uN, uNE), uS), uSE)), dd[Y])
        dv_dx == RMul(RSub(vE, v), dd[X])
        du_dz == RMul(RMul(Quarter, RSub(RSub(RAdd(uB, uBE), uF), uFE)), dd[Z])
        dw_dx == RMul(RSub(wE, w), dd[X])
        dT_dx == RMul(RSub(TE, T), dd[X])
        uhat == RMul(Half, RAdd(u, uE))
        vhat == RMul(Half, RAdd(v, vE))
        what == RMul(Half, RAdd(w, wE))
        That == RMul(Half, RAdd(T, TE))
        mu == [refMu |-> model.refMu, viscosity |-> Viscosity(RMul(That, model.refT))]
        heatK == RDiv(RMul(model.gamma, model.cv), PrandtlNumber)
        divV == RAdd(RAdd(du_dx, dv_dy), dw_dz)
        TwoThirds == RDiv(R(2), R(3))
        Fvhat1 == RSub(RMul(R(2), du_dx), RMul(TwoThirds, divV))
        Fvhat2 == RAdd(du_dy, dv_dx)
        Fvhat3 == RAdd(du_dz, dw_dx)
        Fvhat4 == RAdd(RAdd(RAdd(RMul(heatK, dT_dx), RMul(Fvhat1, uhat)),
                            RMul(Fvhat2, vhat)), RMul(Fvhat3, what))
    IN  [mu |-> mu, per |-> Vec5(R(0), Fvhat1, Fvhat2, Fvhat3, Fvhat4)]

\* NumericalDiffusiveFlux with the table of reconstructors in reverse order
NumericalDiffusiveFluxReversed(s, tn, k, j, i, n, dd, node, model) ==
    CASE s = 0 -> NumericalDiffusiveFluxZ(tn, k, j, i, n, dd, node, model)
      [] s = 1 -> NumericalDiffusiveFluxY(tn, k, j, i, n, dd, node, model)
      [] s = 2 -> NumericalDiffusiveFluxX(tn, k, j, i, n, dd, node, model)

\* ReconstructDiffusiveFlux[s]
NumericalDiffusiveFlux(s, tn, k, j, i, n, dd, node, model) ==
    CASE s = 0 -> NumericalDiffusiveFluxX(tn, k, j, i, n, dd, node, model)
      [] s = 1 -> NumericalDiffusiveFluxY(tn, k, j, i, n, dd, node, model)
      [] s = 2 -> NumericalDiffusiveFluxZ(tn, k, j, i, n, dd, node, model)

(***************************************************************************)
(* EnSight exporter: variable files, particle file, the export of a step   *)
(***************************************************************************)
\* The field U of the solver, one conservative state per node: the values
\* U[idx * dimU + n], n = 0..4, of the C array are the state U[idx + 1] here.
\* The fields of the model repeat eleven states along the node index, so
\* that neighbours in each direction differ in density, velocity and
\* pressure. (Appending the empty sequence leaves a sequence as it is.)
FieldKinds == {1, 2}

FieldStates(kind) ==
    [n \in 1..11 |->
        ConservativeByPrimitive(GammaAir,
            Vec5(R(kind * n), R((n % 3) - 1), R(((n \div 3) % 3) - 1),
                 R(n % 2), R(kind + n)))] \o << >>

Field(s, kind) ==
    LET states == FieldStates(kind)
    IN  [n \in 1..s.nMax |-> states[((n - 1) % 11) + 1]] \o << >>

\* WriteEnsightVariableFile, the values of one node in the scalar files
\* rho, u, v, w, p, T (the cases 0 to 5 of the switch)
ScalarValues(fl, Un) ==
    <<Un[0],
      RDiv(Un[1], Un[0]),
      RDiv(Un[2], Un[0]),
      RDiv(Un[3], Un[0]),
      RMul(RSub(fl.gamma, R(1)),
           RSub(Un[4], RDiv(RMul(Half, SumSquares(Un[1], Un[2], Un[3])), Un[0]))),
      RDiv(RSub(Un[4], RDiv(RMul(Half, SumSquares(Un[1], Un[2], Un[3])), Un[0])),
           RMul(Un[0], fl.cv))>>

\* The vector file with the first velocity component in each of its blocks
VectorValuesFirst(Un) ==
    <<RDiv(Un[1], Un[0]), RDiv(Un[1], Un[0]), RDiv(Un[1], Un[0])>>

\* WriteEnsightVariableFile, the values of one node in the blocks u, v, w of
\* the vector file (the cases 1 to 3 of the switch)
VectorValues(Un) ==
    <<RDiv(Un[1], Un[0]), RDiv(Un[2], Un[0]), RDiv(Un[3], Un[0])>>

\* The elements of a finite set, one after the other
RECURSIVE SetToSeq(_)
SetToSeq(S) ==
    IF S = {} THEN << >>
    ELSE LET x == CHOOSE y \in S : TRUE
         IN  <<x>> \o SetToSeq(S \ {x})

\* WriteEnsightVariableFile: the six scalar files, each with the values of
\* every part in loop order, and the vector file, with the u, v and w
\* blocks of every part. The values of equal node states are computed once.
WriteEnsightVariableFile(U, s, pt, fl, name) ==
    LET parts == ExportParts(pt)
        distinct == SetToSeq({U[n] : n \in DOMAIN U})
        scalarOf == [c \in DOMAIN distinct |-> ScalarValues(fl, distinct[c])] \o << >>
        vectorOf == [c \in DOMAIN distinct |-> VectorValues(distinct[c])] \o << >>
        classOf == [n \in DOMAIN U |->
                       CHOOSE c \in DOMAIN distinct : distinct[c] = U[n]] \o << >>
        \* idx = IndexMath(k, j, i, space) of the m-th node of the loops
        idx(p, m) == LET node == BoxNodes(pt, p)[m]
                     IN  IndexNode(node[1], node[2], node[3], s.jMax, s.iMax)
    IN  [name |-> name,
         scalar |-> [dim \in 0..5 |-> [n \in DOMAIN parts |->
                        [m \in 1..BoxCount(pt, parts[n]) |->
                            scalarOf[classOf[idx(parts[n], m) + 1]][dim + 1]]]],
         vector |-> [n \in DOMAIN parts |-> [dim \in 1..3 |->
                        [m \in 1..BoxCount(pt, parts[n]) |->
                            vectorOf[classOf[idx(parts[n], m) + 1]][dim]]]]]

\* WriteParticleFile: the number of particles and one line per particle, of
\* which the centre and the radius are kept
WriteParticleFile(p, name) ==
    [name |-> name, N |-> Len(p),
     lines |-> [g \in DOMAIN p |->
                  <<FormatG6(R(p[g].x)), FormatG6(R(p[g].y)), FormatG6(R(p[g].z)),
                    FormatG6(R(p[g].r))>>]]

\* WriteComputedDataEnsight blanking the node flags in place while it writes
\* the geometry file
WriteComputedDataEnsightBlanking ==
    /\ pc = "geom"
    /\ (time.stepCount = 0) \/ caseFile.exists
    /\ \E landing \in StreamLandings :
           caseFile' = WriteEnsightCaseFile(
                           IF time.stepCount = 0 THEN InitializeEnsightTransientCaseFile
                           ELSE caseFile, time, landing)
    /\ geoFile' = WriteEnsightGeometryFile(space, part, nodeFlag, time.outputCount)
    /\ nodeFlag' = [idx \in DOMAIN nodeFlag |->
                       BlankID(nodeFlag[idx], space.nodeFlagOffset)]
    /\ \E kind \in FieldKinds :
           LET U == Field(space, kind)
           IN  /\ varFile' = WriteEnsightVariableFile(U, space, part, flow,
                                                      time.outputCount)
               /\ hist' = [hist EXCEPT !.exports = Append(@, time), !.field = U]
    /\ particleFile' = WriteParticleFile(particle, time.outputCount)
    /\ time' = [time EXCEPT !.outputCount = @ + 1]
    /\ UNCHANGED <<pc, space, flow, part, particle, geoID, located, kernel>>

\* WriteComputedDataEnsight. The transient case file must exist unless this
\* is the initialization step. The field U is the argument of the call. The
\* caller counts the exports; hist records the arguments of the calls.
WriteComputedDataEnsight ==
    /\ pc = "geom"
    /\ (time.stepCount = 0) \/ caseFile.exists
    /\ \E landing \in StreamLandings :
           caseFile' = WriteEnsightCaseFile(
                           IF time.stepCount = 0 THEN InitializeEnsightTransientCaseFile
                           ELSE caseFile, time, landing)
    /\ geoFile' = WriteEnsightGeometryFile(space, part, nodeFlag, time.outputCount)
    /\ \E kind \in FieldKinds :
           LET U == Field(space, kind)
           IN  /\ varFile' = WriteEnsightVariableFile(U, space, part, flow,
                                                      time.outputCount)
               /\ hist' = [hist EXCEPT !.exports = Append(@, time), !.field = U]
    /\ particleFile' = WriteParticleFile(particle, time.outputCount)
    /\ time' = [time EXCEPT !.outputCount = @ + 1]
    /\ UNCHANGED <<pc, space, flow, part, particle, nodeFlag, geoID, located, kernel>>

\* One iteration of the time loop of the solver with stationary bodies: the
\* step is counted and the time advances by the time step.
TimeSteps == {<<1, 3>>, <<1, 2>>}

SolverStep ==
    /\ pc = "geom"
    /\ time.stepCount < MaxTransientSteps
    /\ \E dt \in TimeSteps :
           time' = [time EXCEPT !.stepCount = @ + 1,
                                !.currentTime = RAdd(@, dt)]
    /\ UNCHANGED <<pc, space, flow, part, particle, nodeFlag, geoID, located,
                   caseFile, geoFile, hist, kernel, varFile, particleFile>>

(***************************************************************************)
(* Initial states: the structures of main() after the case is loaded.      *)
(***************************************************************************)
Space0(ncx, ncy, ncz, ng, lo, hi, offset) ==
    [nz |-> ncz, ny |-> ncy, nx |-> ncx, ng |-> ng, nodeFlagOffset |-> offset,
     kMax |-> 0, jMax |-> 0, iMax |-> 0, nMax |-> 0,
     dz |-> R(0), dy |-> R(0), dx |-> R(0),
     ddz |-> R(0), ddy |-> R(0), ddx |-> R(0), tinyL |-> R(0),
     zMin |-> R(lo[3]), yMin |-> R(lo[2]), xMin |-> R(lo[1]),
     zMax |-> R(hi[3]), yMax |-> R(hi[2]), xMax |-> R(hi[1])]

Time0(totalTime, totalStep) ==
    [totalTime |-> R(totalTime), totalStep |-> totalStep, stepCount |-> 0,
     outputCount |-> 0, currentTime |-> R(0)]

Flow0(refLength) ==
    [refMa2G |-> R(0), refMu |-> R(1), gamma |-> R(0), gammaMinusOne |-> R(0),
     gasR |-> R(0), cv |-> R(0),
     refLength |-> R(refLength), refDensity |-> R(1), refVelocity |-> R(1),
     refTemperature |-> R(1)]

Part0 ==
    [subN |-> 0,
     kSub |-> [p \in PartIds |-> 0], kSup |-> [p \in PartIds |-> 0],
     jSub |-> [p \in PartIds |-> 0], jSup |-> [p \in PartIds |-> 0],
     iSub |-> [p \in PartIds |-> 0], iSup |-> [p \in PartIds |-> 0]]

\* No kernel has been called
NoKernel == [fn |-> "none"]
NoVarFile == [name |-> -1]
NoParticleFile == [name |-> -1]

InitProgram(sp, tm, fl) ==
    /\ pc = "start"
    /\ space = sp
    /\ time = tm
    /\ flow = fl
    /\ part = Part0
    /\ particle = << >>
    /\ nodeFlag = << >>
    /\ geoID = << >>
    /\ located = << >>
    /\ caseFile = NoCaseFile
    /\ geoFile = NoGeoFile
    /\ varFile = NoVarFile
    /\ particleFile = NoParticleFile
    /\ hist = [space |-> sp, time |-> tm, flow |-> fl, exports |-> << >>,
               field |-> << >>]

InitWith(sp, tm, fl) ==
    /\ InitProgram(sp, tm, fl)
    /\ kernel = NoKernel

\* Unit spacing: the extent of an axis with n cells is n + 1.
Init ==
    \E ncx \in 1..MaxCellsX, ncy \in CellsYZ, ncz \in CellsYZ,
       ng \in GhostWidths, o \in Origins :
        InitWith(Space0(ncx, ncy, ncz, ng, <<o, o, o>>,
                        <<o + ncx + 1, o + ncy + 1, o + ncz + 1>>, 0),
                 Time0(1, 1), Flow0(1))

Next ==
    \/ ComputeCFDParameters
    \/ DomainPartition
    \/ \E p \in BodyLists : InitializeDomainGeometryGCIBM(p)
    \/ \E p \in BodyLists : ComputeDomainGeometryGCIBM(p)

Spec == Init /\ [][Next]_vars

\* Runs with stationary bodies: the classifier runs once, then data is
\* exported; the case sets the offset of the iblank test. The exported files
\* hold several values per node, so these runs have one ghost layer and
\* three body lists: no body, one body, two bodies that overlap.
ExportBodyLists ==
    {<< >>, <<Body(1, 1, 1, 1)>>, <<Body(1, 1, 1, 2), Body(2, 1, 1, 1)>>}

InitExport ==
    \E ncx \in 1..MaxCellsX, ncy \in CellsYZ, ncz \in CellsYZ,
       o \in Origins, offset \in 0..MaxOffset :
        InitWith(Space0(ncx, ncy, ncz, 1, <<o, o, o>>,
                        <<o + ncx + 1, o + ncy + 1, o + ncz + 1>>, offset),
                 Time0(1, 1), Flow0(1))

NextExport ==
    \/ ComputeCFDParameters
    \/ DomainPartition
    \/ \E p \in ExportBodyLists : InitializeDomainGeometryGCIBM(p)
    \/ (time.outputCount = 0 /\ WriteComputedDataEnsight)

SpecExport == InitExport /\ [][NextExport]_vars

\* Transient runs of one small case with a stationary body: the initial data
\* is exported, then the solver steps and the data is exported again, up to
\* MaxOutputs exports.
InitTransient ==
    \E ncx \in 1..2, offset \in 1..2 :
        InitWith(Space0(ncx, 1, 1, 1, <<0, 0, 0>>, <<ncx + 1, 2, 2>>, offset),
                 Time0(1, 1), Flow0(1))

NextTransient ==
    \/ ComputeCFDParameters
    \/ DomainPartition
    \/ InitializeDomainGeometryGCIBM(<<Body(1, 1, 1, 1)>>)
    \/ SolverStep
    \/ (time.outputCount < MaxOutputs /\ WriteComputedDataEnsight)

SpecTransient == InitTransient /\ [][NextTransient]_vars

\* The calls in any order the program allows, with bodies that move between
\* two calls of the classifier: the classifier is handed the body list as it
\* stands.
FrameBodyLists ==
    {<< >>, <<Body(1, 1, 1, 1)>>, <<Body(2, 1, 1, 1)>>,
     <<Body(1, 1, 1, 2), Body(2, 1, 1, 1)>>}

InitFrame ==
    \E ncx \in 1..2, ncy \in CellsYZ, ng \in GhostWidths :
        InitWith(Space0(ncx, ncy, 1, ng, <<0, 0, 0>>, <<ncx + 1, ncy + 1, 2>>, 1),
                 Time0(1, 1), Flow0(1))

MoveBodies(p) ==
    /\ pc \in {"part", "geom"}
    /\ p # particle
    /\ particle' = p
    /\ UNCHANGED <<pc, space, time, flow, part, nodeFlag, geoID, located, caseFile,
                   geoFile, hist, kernel, varFile, particleFile>>

NextFrame ==
    \/ ComputeCFDParameters
    \/ DomainPartition
    \/ \E p \in FrameBodyLists : MoveBodies(p)
    \/ InitializeDomainGeometryGCIBM(particle)
    \/ ComputeDomainGeometryGCIBM(particle)
    \/ (time.outputCount = 0 /\ WriteComputedDataEnsight)

SpecFrame == InitFrame /\ [][NextFrame]_vars

\* The ghost pass of IdentifyGhostCells taken node by node in any order: the
\* first loop of InitializeDomainGeometryGCIBM and LocateSolidGeometry have
\* run, then each node of box 12 is visited once; kernel holds the nodes
\* still to visit and located the flags as the pass found them.
OrderCellsX == 1..3
OrderBodyLists ==
    {<<Body(1, 1, 1, 1)>>, <<Body(1, 1, 1, 2)>>, <<Body(2, 1, 1, 1), Body(1, 2, 1, 1)>>}

InitOrder ==
    \E ncx \in OrderCellsX, ncy \in CellsYZ, ncz \in CellsYZ :
        InitWith(Space0(ncx, ncy, ncz, 1, <<0, 0, 0>>,
                        <<ncx + 1, ncy + 1, ncz + 1>>, 0),
                 Time0(1, 1), Flow0(1))

StartGhostPass(p) ==
    /\ pc = "part"
    /\ LET fg == LocateSolidGeometry(space, p, part, EntireDomainExterior(space),
                                     [idx \in 0..(space.nMax - 1) |-> NoBody])
           nodes == BoxNodes(part, 12)
       IN  /\ nodeFlag' = fg[1]
           /\ geoID' = fg[2]
           /\ located' = fg[1]
           /\ kernel' = [fn |-> "IdentifyGhostCells",
                         pending |-> {nodes[m] : m \in DOMAIN nodes}]
    /\ particle' = p
    /\ pc' = "ghost"
    /\ UNCHANGED <<space, time, flow, part, caseFile, geoFile, hist, varFile,
                   particleFile>>

VisitGhostNode(n) ==
    /\ pc = "ghost"
    /\ n \in kernel.pending
    /\ nodeFlag' = GhostNode(space, nodeFlag, n[1], n[2], n[3])
    /\ kernel' = [kernel EXCEPT !.pending = @ \ {n}]
    /\ UNCHANGED <<pc, space, time, flow, part, particle, geoID, located, caseFile,
                   geoFile, hist, varFile, particleFile>>

NextOrder ==
    \/ ComputeCFDParameters
    \/ DomainPartition
    \/ \E p \in OrderBodyLists : StartGhostPass(p)
    \/ \E n \in (0..8) \X (0..8) \X (0..8) : VisitGhostNode(n)

SpecOrder == InitOrder /\ [][NextOrder]_vars

\* Parameter initialisation alone, over a wider range of case inputs.
RefVelocities == {1, 2}

InitParams ==
    \E ncx \in 1..MaxParamCells, ng \in GhostWidths, lo \in Origins,
       len \in 1..MaxLength, ref \in 1..MaxRefLength, steps \in -1..1,
       vel \in RefVelocities :
      \E ncy \in {1, ncx}, ncz \in {1, ncx} :
        InitWith(Space0(ncx, ncy, ncz, ng, <<lo, lo, lo>>,
                        <<lo + len, lo + len, lo + len>>, 0),
                 Time0(len, steps), [Flow0(ref) EXCEPT !.refVelocity = R(vel)])

SpecParams == InitParams /\ [][ComputeCFDParameters]_vars

\* Parameter initialisation of cases that hold out-of-range values: a domain
\* of zero or negative length, a negative ghost width, a negative reference
\* length or density.
ConfigGhostWidths == {-1, 0, 1}
ConfigLengths == {-1, 0, 1}
ConfigScales == {-1, 1}

InitConfig ==
    \E ncx \in 1..MaxCellsX, ng \in ConfigGhostWidths, len \in ConfigLengths,
       ref \in ConfigScales, dens \in ConfigScales :
        InitWith(Space0(ncx, 1, 1, ng, <<0, 0, 0>>, <<len, 1, 1>>, 0),
                 Time0(1, 1), [Flow0(ref) EXCEPT !.refDensity = R(dens)])

SpecConfig == InitConfig /\ [][ComputeCFDParameters]_vars

(***************************************************************************)
(* Calls of the kernels of cfd_commons.c on given arguments. The kernels   *)
(* read and write their arguments only.                                    *)
(***************************************************************************)
program == <<pc, space, time, flow, part, particle, nodeFlag, geoID, located,
             caseFile, geoFile, hist, varFile, particleFile>>

KernelCase ==
    InitProgram(Space0(1, 1, 1, 1, <<0, 0, 0>>, <<2, 2, 2>>, 0), Time0(1, 1), Flow0(1))

\* Conservative states, physical or not
Densities == {-1, 1, 2}
Momenta == {-1, 0, 1}
Energies == {0, 1, 2}

InitFlux ==
    /\ KernelCase
    /\ \E rho \in Densities, mx \in Momenta, my \in Momenta, mz \in Momenta,
          e \in Energies :
           kernel = [fn |-> "none", U |-> Vec5(R(rho), R(mx), R(my), R(mz), R(e))]

CallPrimitiveByConservative ==
    /\ kernel.fn = "none"
    /\ kernel' = [fn |-> "PrimitiveByConservative", U |-> kernel.U,
                  out |-> PrimitiveByConservative(GammaAir, R(1), kernel.U)]
    /\ UNCHANGED program

CallComputePressure ==
    /\ kernel.fn = "none"
    /\ kernel' = [fn |-> "ComputePressure", U |-> kernel.U,
                  out |-> ComputePressure(GammaAir, kernel.U)]
    /\ UNCHANGED program

\* cv = gasR / (gamma - 1) with gasR = 1
CallComputeTemperature ==
    /\ kernel.fn = "none"
    /\ kernel' = [fn |-> "ComputeTemperature", U |-> kernel.U,
                  out |-> ComputeTemperature(RDiv(R(1), RSub(GammaAir, R(1))), kernel.U)]
    /\ UNCHANGED program

CallConvectiveFlux(s) ==
    /\ kernel.fn = "none"
    /\ kernel' = [fn |-> "ConvectiveFlux", s |-> s, U |-> kernel.U,
                  out |-> ConvectiveFlux(s, GammaAir, kernel.U)]
    /\ UNCHANGED program

NextFlux ==
    \/ CallPrimitiveByConservative
    \/ CallComputePressure
    \/ CallComputeTemperature
    \/ \E s \in 0..2 : CallConvectiveFlux(s)

SpecFlux == InitFlux /\ [][NextFlux]_vars

\* Eigenvalue splitting of any five eigenvalues
EigenvalueSet == {R(-1), R(0), <<1, 2>>}

InitSplit ==
    /\ KernelCase
    /\ \E l0 \in EigenvalueSet, l1 \in EigenvalueSet, l2 \in EigenvalueSet,
          l3 \in EigenvalueSet, l4 \in EigenvalueSet :
           kernel = [fn |-> "none", Lambda |-> Vec5(l0, l1, l2, l3, l4)]

CallEigenvalueSplitting(splitter) ==
    /\ kernel.fn = "none"
    /\ LET split == EigenvalueSplitting(splitter, kernel.Lambda)
       IN  kernel' = [fn |-> "EigenvalueSplitting", splitter |-> splitter,
                      Lambda |-> kernel.Lambda,
                      LambdaP |-> split.LambdaP, LambdaN |-> split.LambdaN]
    /\ UNCHANGED program

\* The conversions between primitive and conservative states, called one
\* after the other on a physical primitive state (rho, u, v, w, p) of a gas
\* with constant gasR and cv = gasR / (gamma - 1).
Velocities == {-1, 0, 1}
PhysicalDensities == {1, 2, 3}
Pressures == {1, 2, 3}
GasConstants == {1, 2}

InitThermo ==
    /\ KernelCase
    /\ \E rho \in PhysicalDensities, u \in Velocities, v \in Velocities,
          w \in Velocities, p \in Pressures, gasR \in GasConstants :
           kernel = [fn |-> "none", gasR |-> R(gasR),
                     Uo |-> Vec5(R(rho), R(u), R(v), R(w), R(p))]

ThermoConservativeByPrimitive ==
    /\ kernel.fn = "none"
    /\ kernel' = [fn |-> "ConservativeByPrimitive", gasR |-> kernel.gasR,
                  Uo |-> kernel.Uo,
                  U |-> ConservativeByPrimitive(GammaAir, kernel.Uo)]
    /\ UNCHANGED program

ThermoPrimitiveByConservative ==
    /\ kernel.fn = "ConservativeByPrimitive"
    /\ kernel' = [fn |-> "PrimitiveByConservative", gasR |-> kernel.gasR,
                  Uo |-> kernel.Uo, U |-> kernel.U,
                  prim |-> PrimitiveByConservative(GammaAir, kernel.gasR, kernel.U)]
    /\ UNCHANGED program

ThermoComputePressure ==
    /\ kernel.fn = "PrimitiveByConservative"
    /\ kernel' = [fn |-> "ComputePressure", gasR |-> kernel.gasR,
                  Uo |-> kernel.Uo, U |-> kernel.U, prim |-> kernel.prim,
                  p |-> ComputePressure(GammaAir, kernel.U)]
    /\ UNCHANGED program

ThermoComputeTemperature ==
    /\ kernel.fn = "ComputePressure"
    /\ kernel' = [fn |-> "ComputeTemperature", gasR |-> kernel.gasR,
                  Uo |-> kernel.Uo, U |-> kernel.U, prim |-> kernel.prim,
                  p |-> kernel.p,
                  T |-> ComputeTemperature(RDiv(kernel.gasR, RSub(GammaAir, R(1))),
                                           kernel.U)]
    /\ UNCHANGED program

NextThermo ==
    \/ ThermoConservativeByPrimitive
    \/ ThermoPrimitiveByConservative
    \/ ThermoComputePressure
    \/ ThermoComputeTemperature

SpecThermo == InitThermo /\ [][NextThermo]_vars

\* The coordinate transformations of one direction, called one after the
\* other: from a node n >= ng to its coordinate and back, and from a
\* coordinate of the domain [sMin, sMin + cells ds] to its node and back.
\* The coordinates are the quarter points of the mesh.
MaxNodeCells == 2
NodeGhosts == {0, 1, 2}
NodeOrigins == {-1, 0, 1}
NodeSpacings == {<<1, 2>>, <<1, 1>>, <<3, 2>>}

InitNode ==
    /\ KernelCase
    /\ \E ng \in NodeGhosts, sMin \in NodeOrigins, ds \in NodeSpacings,
          cells \in 1..MaxNodeCells :
           \/ \E n \in ng..(cells + 2 * ng) :
                  kernel = [fn |-> "none", from |-> "node", ng |-> ng,
                            sMin |-> R(sMin), ds |-> ds, cells |-> cells, n |-> n]
           \/ \E quarter \in 0..(4 * cells) :
                  kernel = [fn |-> "none", from |-> "point", ng |-> ng,
                            sMin |-> R(sMin), ds |-> ds, cells |-> cells,
                            s |-> RAdd(R(sMin), RMul(<<quarter, 4>>, ds))]

CallPointSpace ==
    \/ /\ kernel.fn = "none" /\ kernel.from = "node"
       /\ kernel' = [fn |-> "PointSpace", from |-> "node", ng |-> kernel.ng,
                     sMin |-> kernel.sMin, ds |-> kernel.ds, cells |-> kernel.cells,
                     n |-> kernel.n,
                     s |-> PointSpace(kernel.n, kernel.sMin, kernel.ds, kernel.ng)]
       /\ UNCHANGED program
    \/ /\ kernel.fn = "NodeSpace" /\ kernel.from = "point"
       /\ kernel' = [fn |-> "PointSpace", from |-> "point", ng |-> kernel.ng,
                     sMin |-> kernel.sMin, ds |-> kernel.ds, cells |-> kernel.cells,
                     s |-> kernel.s, n |-> kernel.n,
                     back |-> PointSpace(kernel.n, kernel.sMin, kernel.ds, kernel.ng)]
       /\ UNCHANGED program

CallNodeSpace ==
    \/ /\ kernel.fn = "none" /\ kernel.from = "point"
       /\ kernel' = [fn |-> "NodeSpace", from |-> "point", ng |-> kernel.ng,
                     sMin |-> kernel.sMin, ds |-> kernel.ds, cells |-> kernel.cells,
                     s |-> kernel.s,
                     n |-> NodeSpace(kernel.s, kernel.sMin, RDiv(R(1), kernel.ds),
                                     kernel.ng)]
       /\ UNCHANGED program
    \/ /\ kernel.fn = "PointSpace" /\ kernel.from = "node"
       /\ kernel' = [fn |-> "NodeSpace", from |-> "node", ng |-> kernel.ng,
                     sMin |-> kernel.sMin, ds |-> kernel.ds, cells |-> kernel.cells,
                     n |-> kernel.n, s |-> kernel.s,
                     back |-> NodeSpace(kernel.s, kernel.sMin, RDiv(R(1), kernel.ds),
                                        kernel.ng)]
       /\ UNCHANGED program

NextNode ==
    \/ CallPointSpace
    \/ CallNodeSpace

SpecNode == InitNode /\ [][NextNode]_vars

\* NodeSpace of a coordinate anywhere on the quarter points of the mesh, up
\* to two spacings outside the domain, then ValidNodeSpace of the node with
\* the normal nodes [ng, cells + 2 + ng) or an empty range as the valid range
InitClamp ==
    /\ KernelCase
    /\ \E ng \in NodeGhosts, sMin \in NodeOrigins, ds \in NodeSpacings,
          cells \in 1..MaxNodeCells :
         \E quarter \in (-8)..(4 * (cells + 1) + 8), nMax \in {ng, cells + 2 + ng} :
              kernel = [fn |-> "none", ng |-> ng, sMin |-> R(sMin), ds |-> ds,
                        s |-> RAdd(R(sMin), RMul(<<quarter, 4>>, ds)),
                        nMin |-> ng, nMax |-> nMax]

NodeSpaceAnywhere ==
    /\ kernel.fn = "none"
    /\ kernel' = [kernel EXCEPT !.fn = "NodeSpace"] @@
                 [n |-> NodeSpace(kernel.s, kernel.sMin, RDiv(R(1), kernel.ds), kernel.ng)]
    /\ UNCHANGED program

CallValidNodeSpace ==
    /\ kernel.fn = "NodeSpace"
    /\ kernel' = [kernel EXCEPT !.fn = "ValidNodeSpace"] @@
                 [valid |-> ValidNodeSpace(kernel.n, kernel.nMin, kernel.nMax)]
    /\ UNCHANGED program

NextClamp ==
    \/ NodeSpaceAnywhere
    \/ CallValidNodeSpace

SpecClamp == InitClamp /\ [][NextClamp]_vars

\* Eigenvector matrices of an averaged state Uo = (., u, v, w, hT, c) whose
\* speed of sound is c = sqrt((gamma - 1) (hT - q)), as SymmetricAverage
\* leaves it; the L and R of one direction are computed one after the other.
SoundSpeeds == {1, 2}

AveragedState(u, v, w, c) ==
    LET q == RMul(Half, SumSquares(R(u), R(v), R(w)))
        hT == RAdd(RDiv(RMul(R(c), R(c)), RSub(GammaAir, R(1))), q)
    IN  Vec6(R(1), R(u), R(v), R(w), hT, R(c))

InitEigen ==
    /\ KernelCase
    /\ \E u \in Velocities, v \in Velocities, w \in Velocities, c \in SoundSpeeds :
           kernel = [fn |-> "none", Uo |-> AveragedState(u, v, w, c)]

CallEigenvectorL(s) ==
    /\ kernel.fn = "none"
    /\ kernel' = [fn |-> "EigenvectorL", s |-> s, Uo |-> kernel.Uo,
                  L |-> EigenvectorL(s, GammaAir, kernel.Uo)]
    /\ UNCHANGED program

CallEigenvectorR ==
    /\ kernel.fn = "EigenvectorL"
    /\ kernel' = [fn |-> "EigenvectorR", s |-> kernel.s, Uo |-> kernel.Uo,
                  L |-> kernel.L, R |-> EigenvectorR(kernel.s, kernel.Uo)]
    /\ UNCHANGED program

NextEigen ==
    \/ \E s \in 0..2 : CallEigenvectorL(s)
    \/ CallEigenvectorR

SpecEigen == InitEigen /\ [][NextEigen]_vars

NextSplit == \E splitter \in 0..1 : CallEigenvalueSplitting(splitter)

SpecSplit == InitSplit /\ [][NextSplit]_vars

\* SymmetricAverage on two states of a gas, each given by its density,
\* velocity and speed of sound, into an array Uo that holds what its owner
\* left in it. The calls are those whose square roots are rational.
AverageDensities == {1, 4}
AverageVelocitiesU == {-5, 0, 5}
AverageVelocitiesV == {0, 1}
AverageVelocitiesW == {0, 2}
AverageSoundSpeeds == {1, 2, 3}
HeldValues == {R(0), R(-3)}
Averagers == 0..2

SideState(rho, u, v, w, c) ==
    ConservativeByPrimitive(GammaAir,
        Vec5(R(rho), R(u), R(v), R(w), RDiv(RMul(R(rho), R(c * c)), GammaAir)))

SideStates ==
    {SideState(rho, u, v, w, c) : rho \in AverageDensities, u \in AverageVelocitiesU,
                                  v \in AverageVelocitiesV, w \in AverageVelocitiesW,
                                  c \in AverageSoundSpeeds}

\* Total enthalpy per mass (E + p) / rho of a conservative state
TotalEnthalpy(U) == RDiv(RAdd(U[4], ComputePressure(GammaAir, U)), U[0])

\* (a + D b) / (1 + D)
WeightedMean(D, a, b) == RDiv(RAdd(a, RMul(D, b)), RAdd(R(1), D))

\* c * c of the average of UL and UR with weight D
MeanSoundSpeedSquared(D, UL, UR) ==
    LET mean(n) == WeightedMean(D, RDiv(UL[n], UL[0]), RDiv(UR[n], UR[0]))
    IN  RMul(RSub(GammaAir, R(1)),
             RSub(WeightedMean(D, TotalEnthalpy(UL), TotalEnthalpy(UR)),
                  RMul(Half, SumSquares(mean(1), mean(2), mean(3)))))

ExactAverage(averager, UL, UR) ==
    IF averager = 1
    THEN /\ HasRoot(RDiv(UR[0], UL[0]))
         /\ HasRoot(MeanSoundSpeedSquared(Sqrt(RDiv(UR[0], UL[0])), UL, UR))
    ELSE HasRoot(MeanSoundSpeedSquared(R(1), UL, UR))

InitAverage ==
    /\ KernelCase
    /\ \E UL \in SideStates, UR \in SideStates, held \in HeldValues :
           kernel = [fn |-> "none", UL |-> UL, UR |-> UR,
                     Uo |-> Vec6(held, held, held, held, held, held)]

CallSymmetricAverage(averager) ==
    /\ kernel.fn = "none"
    /\ ExactAverage(averager, kernel.UL, kernel.UR)
    /\ LET assigned == SymmetricAverage(averager, GammaAir, kernel.UL, kernel.UR)
       IN  kernel' = [fn |-> "SymmetricAverage", averager |-> averager,
                      UL |-> kernel.UL, UR |-> kernel.UR, held |-> kernel.Uo,
                      assigned |-> DOMAIN assigned,
                      Uo |-> [n \in 0..5 |-> IF n \in DOMAIN assigned
                                             THEN assigned[n] ELSE kernel.Uo[n]]]
    /\ UNCHANGED program

NextAverage == \E averager \in Averagers : CallSymmetricAverage(averager)

SpecAverage == InitAverage /\ [][NextAverage]_vars

\* Eigenvalue along a direction of an averaged state, then the splitting of
\* these eigenvalues
LambdaSoundSpeeds == {0, 1, 2}

InitLambda ==
    /\ KernelCase
    /\ \E u \in Velocities, v \in Velocities, w \in Velocities,
          c \in LambdaSoundSpeeds :
           kernel = [fn |-> "none", Uo |-> AveragedState(u, v, w, c)]

CallEigenvalue(s) ==
    /\ kernel.fn = "none"
    /\ kernel' = [fn |-> "Eigenvalue", s |-> s, Uo |-> kernel.Uo,
                  Lambda |-> Eigenvalue(s, kernel.Uo)]
    /\ UNCHANGED program

SplitEigenvalue(splitter) ==
    /\ kernel.fn = "Eigenvalue"
    /\ LET split == EigenvalueSplitting(splitter, kernel.Lambda)
       IN  kernel' = [fn |-> "EigenvalueSplitting", splitter |-> splitter,
                      s |-> kernel.s, Uo |-> kernel.Uo, Lambda |-> kernel.Lambda,
                      LambdaP |-> split.LambdaP, LambdaN |-> split.LambdaN]
    /\ UNCHANGED program

NextLambda ==
    \/ \E s \in 0..2 : CallEigenvalue(s)
    \/ \E splitter \in 0..1 : SplitEigenvalue(splitter)

SpecLambda == InitLambda /\ [][NextLambda]_vars

\* NumericalDiffusiveFlux at an interior node of a small block of nodes that
\* hold different states at the two time levels
Vec3(a, b, c) == [m \in 0..2 |-> CASE m = 0 -> a [] m = 1 -> b [] m = 2 -> c]

DiffusiveExtent == Vec3(3, 4, 3)
DiffusiveSpacings == {Vec3(R(1), R(2), Half), Vec3(R(3), Half, R(1))}
DiffusiveSeeds == 0..2
DiffusiveModel == [gamma |-> GammaAir, cv |-> <<5, 2>>, refMu |-> <<1, 100>>, refT |-> R(300)]

NodeState(m, a, b, c) ==
    LET rho == 1 + (m % 2)
    IN  ConservativeByPrimitive(GammaAir,
            Vec5(R(rho), R(((m * m + a) % 5) - 2), R(((3 * m + b) % 7) - 3),
                 R((((m \div 2) + m * c) % 5) - 2), R(rho * (1 + ((m + a + b) % 5)))))

DiffusiveNodes(a, b, c) ==
    LET count == DiffusiveExtent[0] * DiffusiveExtent[1] * DiffusiveExtent[2]
    IN  [m \in 1..count |->
            [U |-> [tn \in 0..1 |-> NodeState(m - 1 + 7 * tn, a, b, c)]]] \o << >>

InitDiffusive ==
    /\ KernelCase
    /\ \E a \in DiffusiveSeeds, b \in DiffusiveSeeds, c \in DiffusiveSeeds,
          dd \in DiffusiveSpacings, j \in 1..2 :
           kernel = [fn |-> "none", k |-> 1, j |-> j, i |-> 1, n |-> DiffusiveExtent,
                     dd |-> dd, node |-> DiffusiveNodes(a, b, c), model |-> DiffusiveModel]

CallNumericalDiffusiveFlux(s, tn) ==
    /\ kernel.fn = "none"
    /\ kernel' = [kernel EXCEPT !.fn = "NumericalDiffusiveFlux"] @@
                 [s |-> s, tn |-> tn,
                  Fvhat |-> NumericalDiffusiveFlux(s, tn, kernel.k, kernel.j, kernel.i,
                                kernel.n, kernel.dd, kernel.node, kernel.model)]
    /\ UNCHANGED program

NextDiffusive == \E s \in 0..2, tn \in 0..1 : CallNumericalDiffusiveFlux(s, tn)

SpecDiffusive == InitDiffusive /\ [][NextDiffusive]_vars

(***************************************************************************)
(* Properties                                                              *)
(***************************************************************************)
Classified == pc = "geom"

InteriorNodes ==
    LET nodes == BoxNodes(part, 12)
    IN  {nodes[m] : m \in DOMAIN nodes}

\* The flat offsets of the nodes of box 12
InteriorOffsets ==
    {IndexNode(n[1], n[2], n[3], space.jMax, space.iMax) : n \in InteriorNodes}

AllNodes == (0..(space.kMax - 1)) \X (0..(space.jMax - 1)) \X (0..(space.iMax - 1))

FlagAt(n) == nodeFlag[IndexNode(n[1], n[2], n[3], space.jMax, space.iMax)]

\* The six axis-aligned neighbours of node n
Neighbours(n) ==
    {<<n[1], n[2], n[3] - 1>>, <<n[1], n[2], n[3] + 1>>,
     <<n[1], n[2] - 1, n[3]>>, <<n[1], n[2] + 1, n[3]>>,
     <<n[1] - 1, n[2], n[3]>>, <<n[1] + 1, n[2], n[3]>>}

HasFluidNeighbour(n) == \E q \in Neighbours(n) : FlagAt(q) = 0

\* The 0-based indices of the bodies of list p that contain node n, the
\* node taken at ((i - ng) dx, (j - ng) dy, (k - ng) dz) as the classifier does
BodiesAround(p, n) ==
    {g \in 0..(Len(p) - 1) :
        RLess(Distance(space, p[g + 1], n[1], n[2], n[3]), R(0))}

\* The same with the node at its physical coordinates (PointSpace)
PhysicalDistance(b, n) ==
    LET x == PointSpace(n[3], space.xMin, space.dx, space.ng)
        y == PointSpace(n[2], space.yMin, space.dy, space.ng)
        z == PointSpace(n[1], space.zMin, space.dz, space.ng)
    IN  RSub(RAdd(RAdd(Pow2(RSub(x, R(b.x))), Pow2(RSub(y, R(b.y)))),
                  Pow2(RSub(z, R(b.z)))), Pow2(R(b.r)))

PhysicalBodiesAround(p, n) ==
    {g \in 0..(Len(p) - 1) : RLess(PhysicalDistance(p[g + 1], n), R(0))}

SetMax(S) == CHOOSE m \in S : \A x \in S : x <= m

\* C1: after the classifier has run (the first time or again), a node is
\* ghost (1) iff it lies in box 12, is inside some body and has a neighbour
\* with flag 0; so every ghost has a flag-0 neighbour and no node left at -1
\* has one.
C1_GhostIff ==
    Classified =>
        /\ LET interior == InteriorOffsets
           IN  \A idx \in DOMAIN nodeFlag : (nodeFlag[idx] = 1) => (idx \in interior)
        /\ \A n \in InteriorNodes :
               /\ (FlagAt(n) = 1) <=>
                      (BodiesAround(particle, n) # {} /\ HasFluidNeighbour(n))
               /\ (FlagAt(n) = 1) => HasFluidNeighbour(n)
               /\ (FlagAt(n) = -1) => ~HasFluidNeighbour(n)

C1_Witness ==
    /\ Classified
    /\ time.stepCount > 0
    /\ \E n \in InteriorNodes : FlagAt(n) = 1
    /\ \E n \in InteriorNodes : FlagAt(n) = -1

\* C2 (as claimed): the classifier decides "node inside body" with the
\* physical node coordinates xMin + (i - ng) dx, for every domain origin:
\* the nodes flagged solid or ghost are those inside a body at these
\* coordinates.
C2_PhysicalCoordinates ==
    Classified =>
        \A n \in InteriorNodes :
            (FlagAt(n) \in {-1, 1}) <=> (PhysicalBodiesAround(particle, n) # {})

\* C5 (as claimed): after classification every node of box 12 has flag 0 or -1.
C5_FluidOrSolidOnly ==
    Classified => \A n \in InteriorNodes : FlagAt(n) \in {0, -1}

\* C5 (amended): after classification every node of box 12 has flag 0, -1 or
\* 1, the nodes with flag -1 or 1 being those inside a body and the nodes with
\* flag 0 the others.
C5_FluidSolidGhost ==
    Classified =>
        \A n \in InteriorNodes :
            /\ FlagAt(n) \in {0, -1, 1}
            /\ (FlagAt(n) = 0) <=> (BodiesAround(particle, n) = {})

C5_Witness ==
    /\ Classified
    /\ \E n \in InteriorNodes : FlagAt(n) = 1
    /\ \E n \in InteriorNodes : FlagAt(n) = 0

\* C6: once initialised, every node of the padded domain holds a flag in
\* {-1, 0, 1, 2} and every node outside box 12 holds 2, also after later
\* classifier calls with other bodies.
C6_ExteriorSentinel ==
    Classified =>
        /\ DOMAIN nodeFlag = 0..(space.nMax - 1)
        /\ LET interior == InteriorOffsets
           IN  \A idx \in DOMAIN nodeFlag :
                   /\ nodeFlag[idx] \in {-1, 0, 1, 2}
                   /\ (idx \notin interior) => (nodeFlag[idx] = 2)

C6_Witness ==
    /\ Classified
    /\ time.stepCount = MaxSteps
    /\ \E n \in InteriorNodes : FlagAt(n) = -1
    /\ LET interior == InteriorOffsets
       IN  \E idx \in DOMAIN nodeFlag : idx \notin interior /\ nodeFlag[idx] = 2

LocatedAt(n) == located[IndexNode(n[1], n[2], n[3], space.jMax, space.iMax)]

\* C7: as LocateSolidGeometry leaves the flags, a node of box 12 has flag -1
\* iff d2 < 0 for some body, and flag 0 otherwise: on a body surface (d2 = 0)
\* and with an empty body list too.
C7_SolidIffStrictlyInside ==
    Classified =>
        \A n \in InteriorNodes :
            /\ (LocatedAt(n) = -1) <=> (BodiesAround(particle, n) # {})
            /\ (LocatedAt(n) # -1) => (LocatedAt(n) = 0)
            /\ (particle = << >>) => (LocatedAt(n) = 0)

\* a node exactly on the surface of a body and inside none, after a repeated call
C7_Witness ==
    /\ Classified
    /\ time.stepCount > 0
    /\ \E n \in InteriorNodes :
           /\ \E g \in 1..Len(particle) :
                  Distance(space, particle[g], n[1], n[2], n[3]) = R(0)
           /\ LocatedAt(n) = 0
    /\ \E n \in InteriorNodes : LocatedAt(n) = -1

\* C8: every node with flag -1 or 1 has the geoID of the last body of the
\* list that contains it; ghost nodes keep the geoID given to them as solids.
C8_GeoIDLastBody ==
    Classified =>
        \A n \in InteriorNodes :
            (FlagAt(n) \in {-1, 1}) =>
                /\ BodiesAround(particle, n) # {}
                /\ geoID[IndexNode(n[1], n[2], n[3], space.jMax, space.iMax)]
                       = SetMax(BodiesAround(particle, n))

\* a ghost node inside two bodies, bound to the second, and a node bound to the first
C8_Witness ==
    /\ Classified
    /\ \E n \in InteriorNodes :
           /\ FlagAt(n) = 1
           /\ BodiesAround(particle, n) = {0, 1}
           /\ geoID[IndexNode(n[1], n[2], n[3], space.jMax, space.iMax)] = 1
    /\ \E n \in InteriorNodes :
           /\ FlagAt(n) \in {-1, 1}
           /\ BodiesAround(particle, n) = {0}

\* C9: IndexNode maps the index triples of the padded domain one-to-one onto
\* [0, nMax), and the index expressions of the classifier equal IndexNode at
\* the node and at its six neighbours.
C9_IndexBijection ==
    (pc = "part") =>
        LET image == {IndexNode(n[1], n[2], n[3], space.jMax, space.iMax) : n \in AllNodes}
        IN  /\ image = 0..(space.nMax - 1)
            /\ Cardinality(image) = Cardinality(AllNodes)
            /\ space.nMax = space.kMax * space.jMax * space.iMax
            /\ \A n \in InteriorNodes :
                   LET k == n[1]
                       j == n[2]
                       i == n[3]
                   IN  /\ Idx(space, k, j, i) = IndexNode(k, j, i, space.jMax, space.iMax)
                       /\ IdxW(space, k, j, i) = IndexNode(k, j, i - 1, space.jMax, space.iMax)
                       /\ IdxE(space, k, j, i) = IndexNode(k, j, i + 1, space.jMax, space.iMax)
                       /\ IdxS(space, k, j, i) = IndexNode(k, j - 1, i, space.jMax, space.iMax)
                       /\ IdxN(space, k, j, i) = IndexNode(k, j + 1, i, space.jMax, space.iMax)
                       /\ IdxF(space, k, j, i) = IndexNode(k - 1, j, i, space.jMax, space.iMax)
                       /\ IdxB(space, k, j, i) = IndexNode(k + 1, j, i, space.jMax, space.iMax)

C9_Witness ==
    /\ pc = "part"
    /\ space.iMax > space.jMax
    /\ space.jMax > space.kMax
    /\ Cardinality(InteriorNodes) > 1

\* The geometry file holds the export of the flags as they are now
GeoWritten == geoFile.name # -1

\* The iblank value the S6 scenario expects for a flag
S6Blank(flag) == IF flag \in {0, 1} THEN 1 ELSE 0

\* C3 (as claimed): for a classified field there is an offset with which the
\* geometry file gets iblank 1 on every fluid and ghost node and iblank 0 on
\* every solid and exterior node.
C3_SomeOffsetSeparates ==
    Classified =>
        \E offset \in (-1)..(MaxOffset + 1) :
            LET file == GeometryPart(space, part, nodeFlag, offset, 0)
                nodes == BoxNodes(part, 0)
            IN  \A m \in DOMAIN nodes : file.iblank[m] = S6Blank(FlagAt(nodes[m]))

\* C3 (amended): with offset 1 the geometry file has iblank 1 on every fluid
\* node and 0 on every ghost, solid and exterior node; with offset 2 it has 1
\* on every fluid, ghost and solid node and 0 on every exterior node; with
\* every offset a ghost node and a solid node get the same iblank.
C3_OffsetOneOrTwo ==
    GeoWritten =>
        \A n \in DOMAIN geoFile.parts :
            LET nodes == BoxNodes(part, ExportParts(part)[n])
                iblank == geoFile.parts[n].iblank
            IN  /\ (geoFile.offset = 1) =>
                       \A m \in DOMAIN nodes :
                           iblank[m] = IF FlagAt(nodes[m]) = 0 THEN 1 ELSE 0
                /\ (geoFile.offset = 2) =>
                       \A m \in DOMAIN nodes :
                           iblank[m] = IF FlagAt(nodes[m]) \in {0, 1, -1} THEN 1 ELSE 0
                /\ \A m \in DOMAIN nodes :
                       (FlagAt(nodes[m]) \in {1, -1})
                           => (iblank[m] = IF geoFile.offset > 1 THEN 1 ELSE 0)

C3_Witness ==
    /\ GeoWritten
    /\ geoFile.offset = 1
    /\ part.subN = 13
    /\ \E n \in InteriorNodes : FlagAt(n) = 1
    /\ \E n \in InteriorNodes : FlagAt(n) = -1
    /\ \E n \in InteriorNodes : FlagAt(n) = 0

\* C4: every iblank entry of the geometry file is 1 if the magnitude of the
\* node's flag is strictly less than the offset, and 0 otherwise.
C4_BlankIffMagnitudeBelowOffset ==
    GeoWritten =>
        \A n \in DOMAIN geoFile.parts :
            LET nodes == BoxNodes(part, ExportParts(part)[n])
                iblank == geoFile.parts[n].iblank
            IN  /\ DOMAIN iblank = DOMAIN nodes
                /\ \A m \in DOMAIN nodes :
                       /\ iblank[m] \in {0, 1}
                       /\ (iblank[m] = 1) <=> (Abs(FlagAt(nodes[m])) < geoFile.offset)

C4_Witness ==
    /\ GeoWritten
    /\ geoFile.offset = 2
    /\ \E n \in InteriorNodes : FlagAt(n) = -1
    /\ \E m \in DOMAIN geoFile.parts[1].iblank : geoFile.parts[1].iblank[m] = 1
    /\ \E m \in DOMAIN geoFile.parts[1].iblank : geoFile.parts[1].iblank[m] = 0

\* C10: ComputeCFDParameters turns the cell counts into node counts n + 2,
\* padded counts n + 2 + 2 ng and their product nMax, and sets each spacing to
\* extent / (nodes - 1) / refLength with its reciprocal; the S2 case gives
\* nx = 12, iMax = 16, dx = 1/11, ddx = 11.
C10_DerivedParameters ==
    (pc = "params") =>
        LET in == hist.space
            len == hist.flow.refLength
        IN  /\ space.nx = in.nx + 2 /\ space.ny = in.ny + 2 /\ space.nz = in.nz + 2
            /\ space.iMax = space.nx + 2 * in.ng
            /\ space.jMax = space.ny + 2 * in.ng
            /\ space.kMax = space.nz + 2 * in.ng
            /\ space.nMax = space.iMax * space.jMax * space.kMax
            /\ RMul(RMul(space.dx, R(in.nx + 1)), len) = RSub(in.xMax, in.xMin)
            /\ RMul(RMul(space.dy, R(in.ny + 1)), len) = RSub(in.yMax, in.yMin)
            /\ RMul(RMul(space.dz, R(in.nz + 1)), len) = RSub(in.zMax, in.zMin)
            /\ RMul(space.ddx, space.dx) = R(1)
            /\ RMul(space.ddy, space.dy) = R(1)
            /\ RMul(space.ddz, space.dz) = R(1)
            /\ (/\ in.nx = 10 /\ in.ny = 10 /\ in.nz = 10 /\ in.ng = 2
                /\ in.xMin = R(0) /\ in.xMax = R(1) /\ len = R(1))
                   => (/\ space.nx = 12 /\ space.iMax = 16
                       /\ space.dx = <<1, 11>> /\ space.ddx = <<11, 1>>)

\* the S2 case after ComputeCFDParameters
C10_Witness ==
    /\ pc = "params"
    /\ hist.space.nx = 10 /\ hist.space.ny = 10 /\ hist.space.nz = 10
    /\ hist.space.ng = 2
    /\ hist.space.xMin = R(0) /\ hist.space.xMax = R(1)
    /\ hist.flow.refLength = R(1)
    /\ space.dx = <<1, 11>>

\* The configuration is out of range: a spacing that came out <= 0, a
\* negative ghost width or a negative reference scale
ConfigOutOfRange ==
    \/ ~RLess(R(0), space.dx) \/ ~RLess(R(0), space.dy) \/ ~RLess(R(0), space.dz)
    \/ hist.space.ng < 0
    \/ RLess(hist.flow.refLength, R(0)) \/ RLess(hist.flow.refDensity, R(0))
    \/ RLess(hist.flow.refVelocity, R(0)) \/ RLess(hist.flow.refTemperature, R(0))

\* C11 (as claimed): ComputeCFDParameters returns success with derived values
\* only for a configuration in range; with dx, dy or dz <= 0, a negative ng or
\* a negative reference scale it reports a fatal error instead.
C11_RejectsOutOfRange ==
    (pc = "params") => ~ConfigOutOfRange

\* C12 (as claimed): a kernel that consumes a conservative state returns a
\* value only for a physical state, rho > 0 and p > 0; with rho <= 0 or
\* p <= 0 it ends in a fatal error.
C12_NonPhysicalStateFatal ==
    (kernel.fn \in {"PrimitiveByConservative", "ComputePressure",
                    "ComputeTemperature", "ConvectiveFlux"}) =>
        /\ RLess(R(0), kernel.U[0])
        /\ RLess(R(0), ComputePressure(GammaAir, kernel.U))

\* C13: after ComputeCFDParameters totalStep is 9000000 if the given totalStep
\* was negative and the given totalStep otherwise (0 included), so it is
\* >= 0; totalTime is the given totalTime times refVelocity / refLength.
C13_StepSentinel ==
    (pc = "params") =>
        /\ time.totalStep = IF hist.time.totalStep < 0 THEN 9000000
                                                        ELSE hist.time.totalStep
        /\ time.totalStep >= 0
        /\ RMul(time.totalTime, hist.flow.refLength)
               = RMul(hist.time.totalTime, hist.flow.refVelocity)

\* a negative step limit replaced, with reference scales other than 1
C13_Witness ==
    /\ pc = "params"
    /\ hist.time.totalStep < 0
    /\ time.totalStep = 9000000
    /\ hist.flow.refVelocity = R(2)
    /\ hist.flow.refLength = R(2)
    /\ time.totalTime = hist.time.totalTime

\* C14: for both splitters and any five eigenvalues, LambdaP[r] + LambdaN[r]
\* = Lambda[r] for every component r; for Steger-Warming (splitter 1) also
\* LambdaP[r] >= 0 and LambdaN[r] <= 0.
C14_SplitterSum ==
    (kernel.fn = "EigenvalueSplitting") =>
        \A r \in 0..4 :
            /\ SurdEquals(SurdAdd(kernel.LambdaP[r], kernel.LambdaN[r]), kernel.Lambda[r])
            /\ (kernel.splitter = 1) =>
                   /\ SurdNonNegative(kernel.LambdaP[r])
                   /\ SurdNonPositive(kernel.LambdaN[r])

\* Steger-Warming on eigenvalues of both signs and zero
C14_Witness ==
    /\ kernel.fn = "EigenvalueSplitting"
    /\ kernel.splitter = 1
    /\ kernel.Lambda[0] = R(-1)
    /\ kernel.Lambda[2] = R(0)
    /\ kernel.Lambda[4] = <<1, 2>>

\* Components a and b of vector V exchanged
Swap(V, a, b) ==
    [n \in DOMAIN V |-> IF n = a THEN V[b] ELSE IF n = b THEN V[a] ELSE V[n]]

\* The closed form of the inviscid flux in direction s: mass flux rho u_s,
\* momentum flux rho u_s u_m + p delta_sm, energy flux (rho eT + p) u_s
ClosedFormFlux(s, gamma, U) ==
    LET p == RMul(RSub(gamma, R(1)),
                  RSub(U[4], RDiv(RMul(Half, SumSquares(U[1], U[2], U[3])), U[0])))
        us == RDiv(U[s + 1], U[0])
    IN  [n \in 0..4 |->
            CASE n = 0 -> U[s + 1]
              [] n = 4 -> RMul(RAdd(U[4], p), us)
              [] OTHER -> RAdd(RMul(U[n], us), IF n = s + 1 THEN p ELSE R(0))]

\* C15: for a state with rho # 0 the flux of each direction is the closed
\* form; the flux in y of the state with x and y momentum exchanged is the
\* flux in x with components 1 and 2 exchanged, and likewise for z with
\* components 1 and 3.
C15_FluxSymmetry ==
    (kernel.fn = "ConvectiveFlux" /\ kernel.U[0] # R(0)) =>
        /\ kernel.out = ClosedFormFlux(kernel.s, GammaAir, kernel.U)
        /\ (kernel.s = 0) =>
               /\ ConvectiveFlux(1, GammaAir, Swap(kernel.U, 1, 2)) = Swap(kernel.out, 1, 2)
               /\ ConvectiveFlux(2, GammaAir, Swap(kernel.U, 1, 3)) = Swap(kernel.out, 1, 3)

\* the flux in x of a state whose three momentum components differ
C15_Witness ==
    /\ kernel.fn = "ConvectiveFlux"
    /\ kernel.s = 0
    /\ kernel.U[0] = R(2)
    /\ kernel.U[1] = R(1) /\ kernel.U[2] = R(-1) /\ kernel.U[3] = R(0)
    /\ kernel.out[1] # kernel.out[2]

\* The product of two 5 x 5 matrices
MatMul(A, B) ==
    [row \in 0..4 |-> [col \in 0..4 |->
        RAdd(RAdd(RAdd(RAdd(RMul(A[row][0], B[0][col]), RMul(A[row][1], B[1][col])),
                        RMul(A[row][2], B[2][col])), RMul(A[row][3], B[3][col])),
             RMul(A[row][4], B[4][col]))]]

Identity5 == [row \in 0..4 |-> [col \in 0..4 |-> IF row = col THEN R(1) ELSE R(0)]]

\* C16: for each direction and every averaged state with c > 0 and
\* c c = (gamma - 1) (hT - (u u + v v + w w) / 2), the matrices of
\* EigenvectorL and EigenvectorR satisfy L R = identity.
C16_EigenvectorInverse ==
    (/\ kernel.fn = "EigenvectorR"
     /\ RLess(R(0), kernel.Uo[5])
     /\ RMul(kernel.Uo[5], kernel.Uo[5])
            = RMul(RSub(GammaAir, R(1)),
                   RSub(kernel.Uo[4],
                        RMul(Half, SumSquares(kernel.Uo[1], kernel.Uo[2], kernel.Uo[3])))))
        => MatMul(kernel.L, kernel.R) = Identity5

\* direction x, a state with three different velocity components
C16_Witness ==
    /\ kernel.fn = "EigenvectorR"
    /\ kernel.s = 0
    /\ kernel.Uo[1] = R(1) /\ kernel.Uo[2] = R(-1) /\ kernel.Uo[3] = R(0)
    /\ kernel.Uo[5] = R(2)
    /\ kernel.R[1][0] = R(-1)

\* C17: for a primitive state with rho > 0 and p > 0, PrimitiveByConservative
\* of ConservativeByPrimitive returns the same rho, u, v, w, p and the
\* temperature p / (rho gasR); ComputePressure and ComputeTemperature of the
\* same conservative state, with cv = gasR / (gamma - 1), give that p and T.
C17_ThermodynamicRoundTrip ==
    LET physical == RLess(R(0), kernel.Uo[0]) /\ RLess(R(0), kernel.Uo[4])
        converted == kernel.fn \in {"PrimitiveByConservative", "ComputePressure",
                                    "ComputeTemperature"}
    IN  /\ (converted /\ physical) =>
               /\ \A n \in 0..4 : kernel.prim[n] = kernel.Uo[n]
               /\ kernel.prim[5] = RDiv(kernel.Uo[4], RMul(kernel.Uo[0], kernel.gasR))
        /\ (kernel.fn \in {"ComputePressure", "ComputeTemperature"} /\ physical) =>
               kernel.p = kernel.prim[4]
        /\ (kernel.fn = "ComputeTemperature" /\ physical) =>
               kernel.T = kernel.prim[5]

\* a moving gas with rho = 2, p = 3, gasR = 2 after all four calls
C17_Witness ==
    /\ kernel.fn = "ComputeTemperature"
    /\ kernel.Uo = Vec5(R(2), R(1), R(-1), R(1), R(3))
    /\ kernel.gasR = R(2)
    /\ kernel.U[4] = <<21, 2>>
    /\ kernel.T = <<3, 4>>

\* C18: for every node n >= ng, NodeSpace of PointSpace of n, with the
\* reciprocal spacing 1 / ds, is n; for every coordinate x0 in
\* [sMin, sMax], PointSpace of NodeSpace of x0 differs from x0 by at most
\* ds / 2.
C18_NodeCoordinateRoundTrip ==
    /\ (kernel.fn = "NodeSpace" /\ kernel.from = "node" /\ kernel.n >= kernel.ng)
           => kernel.back = kernel.n
    /\ (/\ kernel.fn = "PointSpace" /\ kernel.from = "point"
        /\ ~RLess(kernel.s, kernel.sMin)
        /\ ~RLess(RAdd(kernel.sMin, RMul(R(kernel.cells), kernel.ds)), kernel.s))
           => ~RLess(RMul(Half, kernel.ds), RAbs(RSub(kernel.back, kernel.s)))

\* a coordinate three quarters of a spacing above a node has gone to the next
\* node and back
C18_Witness ==
    /\ kernel.fn = "PointSpace" /\ kernel.from = "point"
    /\ kernel.ds = <<3, 2>> /\ kernel.sMin = R(-1) /\ kernel.ng = 2
    /\ kernel.s = <<1, 8>>
    /\ kernel.n = 3
    /\ kernel.back = <<1, 2>>

\* The calls of WriteComputedDataEnsight so far are those of a transient
\* run: the first with stepCount = 0 and outputCount = 0, each later one with
\* stepCount > 0 and the next outputCount
TransientExports ==
    LET calls == hist.exports
    IN  /\ Len(calls) >= 1
        /\ calls[1].stepCount = 0 /\ calls[1].outputCount = 0
        /\ \A k \in 2..Len(calls) :
               /\ calls[k].stepCount > 0
               /\ calls[k].outputCount = calls[k - 1].outputCount + 1

\* C19: after n calls of WriteComputedDataEnsight in a transient run,
\* ensight.case records the number of steps n and exactly n time values,
\* one per export, in export order.
C19_CaseFileListsAllSteps ==
    TransientExports =>
        LET calls == hist.exports
            values == SelectSeq(caseFile.values, LAMBDA v : v /= NewLine)
        IN  /\ caseFile.exists
            /\ ParseInt(caseFile.steps, 1) = Len(calls)
            /\ values = [k \in 1..Len(calls) |-> TimeValue(calls[k].currentTime)]

\* C20: for every part the geometry file declares the extents of the box and
\* writes exactly their product of x, y, z coordinates and iblank entries;
\* every scalar file and every component of the vector file writes as many
\* values for the part, and the m-th of them is the value at the node of the
\* m-th coordinates, the nodes running with k outermost and i innermost.
C20_FilesNodeForNode ==
    (GeoWritten /\ varFile.name # -1) =>
        LET \* the coordinates of the nodes of each axis
            xs == [n \in 1..space.iMax |->
                      PointSpace(n - 1, space.xMin, space.dx, space.ng)] \o << >>
            ys == [n \in 1..space.jMax |->
                      PointSpace(n - 1, space.yMin, space.dy, space.ng)] \o << >>
            zs == [n \in 1..space.kMax |->
                      PointSpace(n - 1, space.zMin, space.dz, space.ng)] \o << >>
            U == hist.field
            distinct == SetToSeq({U[idx] : idx \in DOMAIN U})
            \* rho, u, v, w, p, T of each node state of the field
            expected == [c \in DOMAIN distinct |->
                            LET Un == distinct[c]
                            IN  <<Un[0], RDiv(Un[1], Un[0]), RDiv(Un[2], Un[0]),
                                  RDiv(Un[3], Un[0]), ComputePressure(flow.gamma, Un),
                                  ComputeTemperature(flow.cv, Un)>>] \o << >>
            classOf == [idx \in DOMAIN U |->
                           CHOOSE c \in DOMAIN distinct : distinct[c] = U[idx]] \o << >>
        IN  \A n \in DOMAIN geoFile.parts :
                LET p == ExportParts(part)[n]
                    g == geoFile.parts[n]
                    ni == part.iSup[p] - part.iSub[p]
                    nj == part.jSup[p] - part.jSub[p]
                    nk == part.kSup[p] - part.kSub[p]
                    count == ni * nj * nk
                IN  /\ g.nodeCount = <<ni, nj, nk>>
                    /\ Len(g.x) = count /\ Len(g.y) = count /\ Len(g.z) = count
                    /\ Len(g.iblank) = count
                    /\ \A dim \in 0..5 : Len(varFile.scalar[dim][n]) = count
                    /\ \A dim \in 1..3 : Len(varFile.vector[n][dim]) = count
                    /\ \A m \in 1..count :
                           \* the node at the m-th coordinates of the geometry file
                           LET k == CHOOSE a \in 0..(space.kMax - 1) : zs[a + 1] = g.z[m]
                               j == CHOOSE a \in 0..(space.jMax - 1) : ys[a + 1] = g.y[m]
                               i == CHOOSE a \in 0..(space.iMax - 1) : xs[a + 1] = g.x[m]
                               values == expected[classOf[IndexNode(k, j, i, space.jMax,
                                                                    space.iMax) + 1]]
                           IN  /\ k = part.kSub[p] + ((m - 1) \div (nj * ni))
                               /\ j = part.jSub[p] + (((m - 1) \div ni) % nj)
                               /\ i = part.iSub[p] + ((m - 1) % ni)
                               /\ \A dim \in 0..5 :
                                      varFile.scalar[dim][n][m] = values[dim + 1]
                               /\ \A dim \in 1..3 :
                                      varFile.vector[n][dim][m] = values[dim + 1]

\* an export of the whole domain and of its interior, the domain with three
\* different extents
C20_Witness ==
    /\ GeoWritten /\ varFile.name = 0
    /\ part.subN = 13
    /\ geoFile.parts[1].nodeCount[1] > geoFile.parts[1].nodeCount[2]
    /\ geoFile.parts[1].nodeCount[2] > geoFile.parts[1].nodeCount[3]
    /\ geoFile.parts[13].nodeCount = <<3, 2, 1>>
    /\ Len(varFile.vector[13][3]) = 6
    /\ varFile.scalar[1][13][1] # varFile.scalar[1][13][2]
    /\ varFile.vector[13][1][1] # varFile.vector[13][2][1]


\* The state left by a call of SymmetricAverage
Averaged == kernel.fn = "SymmetricAverage"

\* The weight of the right state: the square root of rhoR / rhoL for the Roe
\* averager 1, one for any other averager
IsWeight(D) ==
    IF kernel.averager = 1
    THEN ~RLess(D, R(0)) /\ Pow2(D) = RDiv(kernel.UR[0], kernel.UL[0])
    ELSE D = R(1)

\* Uo[1..5] are the weighted means of u, v, w, hT and the speed of sound
AverageFormulas ==
    \E D \in {Half, R(1), R(2)} :
        /\ IsWeight(D)
        /\ \A n \in 1..3 :
               kernel.Uo[n] = WeightedMean(D, RDiv(kernel.UL[n], kernel.UL[0]),
                                              RDiv(kernel.UR[n], kernel.UR[0]))
        /\ kernel.Uo[4] = WeightedMean(D, TotalEnthalpy(kernel.UL), TotalEnthalpy(kernel.UR))
        /\ ~RLess(kernel.Uo[5], R(0))
        /\ Pow2(kernel.Uo[5]) =
               RMul(RSub(GammaAir, R(1)),
                    RSub(kernel.Uo[4],
                         RMul(Half, SumSquares(kernel.Uo[1], kernel.Uo[2], kernel.Uo[3]))))

\* C21 as stated: SymmetricAverage assigns every one of the six entries
\* Uo[0..5], with u, v, w, hT the weighted means (phiL + D phiR) / (1 + D),
\* D = sqrt(rhoR / rhoL) for averager 1 and D = 1 otherwise, and
\* c = sqrt((gamma - 1) (hT - (u u + v v + w w) / 2)).
C21_WholeStateAssigned ==
    Averaged => kernel.assigned = 0..5 /\ AverageFormulas

\* C21, amended: SymmetricAverage assigns the five entries Uo[1..5] by these
\* formulas and does not assign Uo[0], which keeps what the array held.
C21_VelocityEnthalpySoundSpeed ==
    Averaged => /\ kernel.assigned = 1..5
                /\ kernel.Uo[0] = kernel.held[0]
                /\ AverageFormulas

\* A Roe average of two different states of densities 1 and 4: D = 2,
\* u = (-5 + 2 * 5) / 3, c = 7 / 3, and Uo[0] still holds -3
C21_Witness ==
    /\ Averaged
    /\ kernel.averager = 1
    /\ kernel.UL = SideState(1, -5, 1, 0, 1)
    /\ kernel.UR = SideState(4, 5, 1, 0, 1)
    /\ kernel.Uo[1] = <<5, 3>>
    /\ kernel.Uo[5] = <<7, 3>>
    /\ kernel.Uo[0] = R(-3)


\* The state left by the Lax-Friedrichs splitting of the eigenvalues of a
\* direction
SplitByLaxFriedrichs == kernel.fn = "EigenvalueSplitting" /\ kernel.splitter = 0

\* C22: Eigenvalue returns Lambda = (u_s - c, u_s, u_s, u_s, u_s + c) with
\* u_s = Uo[s + 1] and c = Uo[5]; on it the Lax-Friedrichs splitter has
\* lambdaStar = |u_s| + c, LambdaP[r] = (Lambda[r] + lambdaStar) / 2 and
\* LambdaN[r] = (Lambda[r] - lambdaStar) / 2 for r in 0..4, and the entry
\* |Lambda[2]| + Lambda[4] - Lambda[2] of the code equals the documented
\* |Lambda[1]| + Lambda[4] - Lambda[2].
C22_EigenvaluesAndLocalMaximum ==
    kernel.fn \in {"Eigenvalue", "EigenvalueSplitting"} =>
        LET us == kernel.Uo[kernel.s + 1]
            c == kernel.Uo[5]
            Lambda == kernel.Lambda
            lambdaStar == RAdd(RAbs(us), c)
        IN  /\ Lambda[0] = RSub(us, c)
            /\ \A r \in 1..3 : Lambda[r] = us
            /\ Lambda[4] = RAdd(us, c)
            /\ RSub(RAdd(RAbs(Lambda[2]), Lambda[4]), Lambda[2])
                   = RSub(RAdd(RAbs(Lambda[1]), Lambda[4]), Lambda[2])
            /\ SplitByLaxFriedrichs =>
                   \A r \in 0..4 :
                       /\ SurdEquals(kernel.LambdaP[r],
                                     RDiv(RAdd(Lambda[r], lambdaStar), R(2)))
                       /\ SurdEquals(kernel.LambdaN[r],
                                     RDiv(RSub(Lambda[r], lambdaStar), R(2)))

\* Direction y of the state u = 1, v = -1, w = 0, c = 2: Lambda =
\* (-3, -1, -1, -1, 1), lambdaStar = 3
C22_Witness ==
    /\ SplitByLaxFriedrichs
    /\ kernel.s = 1
    /\ kernel.Uo = AveragedState(1, -1, 0, 2)
    /\ kernel.Lambda = Vec5(R(-3), R(-1), R(-1), R(-1), R(1))
    /\ SurdEquals(kernel.LambdaP[4], R(2))
    /\ SurdEquals(kernel.LambdaN[0], R(-3))

\* C29: with a speed of sound c >= 0 in the eigenvalues of Eigenvalue, the
\* Lax-Friedrichs splitter gives LambdaP[r] >= 0 and LambdaN[r] <= 0 for
\* every r in 0..4, whatever the sign of the normal velocity.
C29_SplitSigns ==
    SplitByLaxFriedrichs /\ ~RLess(kernel.Uo[5], R(0)) =>
        \A r \in 0..4 : /\ SurdNonNegative(kernel.LambdaP[r])
                        /\ SurdNonPositive(kernel.LambdaN[r])

\* A negative normal velocity: u = -1, c = 1 along x, where LambdaP[0] = 0
C29_Witness ==
    /\ SplitByLaxFriedrichs
    /\ kernel.s = 0
    /\ kernel.Uo[1] = R(-1)
    /\ kernel.Uo[5] = R(1)
    /\ kernel.Lambda[0] = R(-2)
    /\ SurdEquals(kernel.LambdaP[0], R(0))
    /\ SurdEquals(kernel.LambdaN[4], R(-1))


\* The viscous flux at the face between a node and its neighbour along axis
\* s, written once for all axes: d(a, t) is the derivative of velocity
\* component a along axis t, two-point along s and four-point over the two
\* nodes next to the face along the other axes.
FaceViscousFlux(s, tn, k, j, i, n, dd, node, model) ==
    LET at(d) == node[IndexNode(k + d[3], j + d[2], i + d[1], n[1], n[0]) + 1].U[tn]
        e(t) == [a \in 1..3 |-> IF a = t + 1 THEN 1 ELSE 0]
        none == [a \in 1..3 |-> 0]
        plus(x, y) == [a \in 1..3 |-> x[a] + y[a]]
        minus(x) == [a \in 1..3 |-> -x[a]]
        vel(a, d) == RDiv(at(d)[a + 1], at(d)[0])
        gasR == RMul(model.cv, RSub(model.gamma, R(1)))
        temp(d) == PrimitiveByConservative(model.gamma, gasR, at(d))[5]
        normal(a) == RMul(RSub(vel(a, e(s)), vel(a, none)), dd[s])
        tangential(a, t) ==
            RMul(RDiv(RSub(RAdd(vel(a, e(t)), vel(a, plus(e(t), e(s)))),
                           RAdd(vel(a, minus(e(t))), vel(a, plus(minus(e(t)), e(s))))),
                      R(4)), dd[t])
        d(a, t) == IF t = s THEN normal(a) ELSE tangential(a, t)
        divV == RAdd(RAdd(d(0, 0), d(1, 1)), d(2, 2))
        stress(a) == IF a = s
                     THEN RSub(RMul(R(2), d(s, s)), RDiv(RMul(R(2), divV), R(3)))
                     ELSE RAdd(d(s, a), d(a, s))
        face(a) == RDiv(RAdd(vel(a, none), vel(a, e(s))), R(2))
        conduction == RMul(RDiv(RMul(model.gamma, model.cv), <<71, 100>>),
                           RMul(RSub(temp(e(s)), temp(none)), dd[s]))
    IN  [T |-> RMul(RDiv(RAdd(temp(none), temp(e(s))), R(2)), model.refT),
         per |-> Vec5(R(0), stress(0), stress(1), stress(2),
                      RAdd(conduction,
                           RAdd(RAdd(RMul(stress(0), face(0)), RMul(stress(1), face(1))),
                                RMul(stress(2), face(2)))))]

\* C23: the y-face and z-face viscous flux kernels are the cyclic rotations
\* of the x-face kernel: in each, the face-normal derivatives of u, v, w, T
\* are two-point differences across the face, the tangential derivatives are
\* four-point averages over the two nodes next to the face, component s + 1
\* is mu (2 d(u_s)/ds - (2/3) divV), the two shear components are mu times
\* the symmetric sum of cross derivatives, component 0 is 0 and component 4
\* is k dT/ds plus components 1..3 times the face-averaged velocity.
C23_ViscousKernelsRotate ==
    kernel.fn = "NumericalDiffusiveFlux" =>
        LET flux == FaceViscousFlux(kernel.s, kernel.tn, kernel.k, kernel.j, kernel.i,
                                    kernel.n, kernel.dd, kernel.node, kernel.model)
        IN  /\ kernel.Fvhat.mu.refMu = kernel.model.refMu
            /\ kernel.Fvhat.mu.viscosity.T = flux.T
            /\ kernel.Fvhat.per = flux.per

\* A z face with a temperature jump across it and all four stress and
\* energy components different from zero
C23_Witness ==
    /\ kernel.fn = "NumericalDiffusiveFlux"
    /\ kernel.s = 2
    /\ \A r \in 1..4 : kernel.Fvhat.per[r] # R(0)
    /\ kernel.Fvhat.per[1] # kernel.Fvhat.per[2]
    /\ ComputeTemperature(kernel.model.cv,
           kernel.node[IndexNode(kernel.k, kernel.j, kernel.i, 4, 3) + 1].U[kernel.tn])
         # ComputeTemperature(kernel.model.cv,
               kernel.node[IndexNode(kernel.k + 1, kernel.j, kernel.i, 4, 3) + 1].U[kernel.tn])


\* The node indices Sub .. Sup - 1 of a range
RangeNodes(r) == r[1]..(r[2] - 1)

\* The five ranges of an axis are pairwise disjoint, cover 0 .. max - 1 and
\* hold as many interior node layers as there are cells
AxisRangesPartition(cells, n, ng, max) ==
    LET ranges == AxisRanges(n, ng)
    IN  /\ \A a, b \in 1..5 : a # b => RangeNodes(ranges[a]) \cap RangeNodes(ranges[b]) = {}
        /\ UNION {RangeNodes(ranges[a]) : a \in 1..5} = 0..(max - 1)
        /\ \A a \in 1..5 : ranges[a][1] <= ranges[a][2]
        /\ max = n + 2 * ng
        /\ Cardinality(RangeNodes(ranges[3])) = cells

\* C24: along each axis with n = cells + 2 node layers and ghost width
\* ng >= 1, the five documented index ranges (lower exterior ghost, lower
\* boundary, interior, upper boundary, upper exterior ghost) are pairwise
\* disjoint, cover the entire-domain range [0, n + 2 ng) = [0, iMax) of
\* NodeBasedMeshNumberRefine exactly, and the interior range holds as many
\* node layers as the case gave cells.
C24_AxisRangesPartition ==
    (pc = "params" /\ space.ng >= 1) =>
        /\ AxisRangesPartition(hist.space.nx, space.nx, space.ng, space.iMax)
        /\ AxisRangesPartition(hist.space.ny, space.ny, space.ng, space.jMax)
        /\ AxisRangesPartition(hist.space.nz, space.nz, space.ng, space.kMax)

\* Three cells along x with two ghost layers: nine nodes 0..8, interior 3..5
C24_Witness ==
    /\ pc = "params"
    /\ hist.space.nx = 3
    /\ space.ng = 2
    /\ space.iMax = 9
    /\ AxisRanges(space.nx, space.ng) = << <<0, 2>>, <<2, 3>>, <<3, 6>>, <<6, 7>>, <<7, 9>> >>
    /\ hist.space.nz = 1
    /\ RangeNodes(AxisRanges(space.nz, space.ng)[3]) = {3}


\* The largest integer not above a
Floor(a) == IF a[1] >= 0 THEN a[1] \div a[2] ELSE -((a[2] - 1 - a[1]) \div a[2])

\* (s - sMin) * dds + 0.5 of the call
ShiftedOffset == RAdd(RDiv(RSub(kernel.s, kernel.sMin), kernel.ds), Half)

\* ValidNodeSpace returns the node clamped into [nMin, nMax - 1]: the node
\* itself when it is in the range, else the nearest end of the range
ClampedIntoRange ==
    (kernel.fn = "ValidNodeSpace" /\ kernel.nMin <= kernel.nMax - 1) =>
        /\ kernel.nMin <= kernel.valid /\ kernel.valid <= kernel.nMax - 1
        /\ kernel.n < kernel.nMin => kernel.valid = kernel.nMin
        /\ kernel.n > kernel.nMax - 1 => kernel.valid = kernel.nMax - 1
        /\ (kernel.nMin <= kernel.n /\ kernel.n <= kernel.nMax - 1)
               => kernel.valid = kernel.n

\* C26 as stated: for every coordinate s, also below sMin, NodeSpace is
\* floor((s - sMin) * dds + 0.5) + ng, and ValidNodeSpace clamps it into
\* [nMin, nMax - 1] whenever nMin <= nMax - 1.
C26_FloorEverywhere ==
    /\ kernel.fn \in {"NodeSpace", "ValidNodeSpace"}
           => kernel.n = Floor(ShiftedOffset) + kernel.ng
    /\ ClampedIntoRange

\* C26, amended: NodeSpace is floor((s - sMin) * dds + 0.5) + ng for the
\* coordinates with (s - sMin) * dds + 0.5 >= 0, that is from half a spacing
\* below sMin upwards; further below, the conversion discards the fraction
\* towards zero and NodeSpace is ceil((s - sMin) * dds + 0.5) + ng.
\* ValidNodeSpace clamps either into [nMin, nMax - 1] whenever
\* nMin <= nMax - 1.
C26_FloorFromHalfSpacingBelow ==
    /\ kernel.fn \in {"NodeSpace", "ValidNodeSpace"}
           => kernel.n = kernel.ng + (IF ~RLess(ShiftedOffset, R(0))
                                      THEN Floor(ShiftedOffset)
                                      ELSE -Floor(RSub(R(0), ShiftedOffset)))
    /\ ClampedIntoRange

\* A coordinate two spacings below sMin: the shifted offset is -3/2, the
\* node is ng - 1 = 0 (its floor would give -1) and the clamp returns nMin
C26_Witness ==
    /\ kernel.fn = "ValidNodeSpace"
    /\ kernel.ng = 1 /\ kernel.sMin = R(0) /\ kernel.ds = <<1, 2>>
    /\ kernel.s = R(-1)
    /\ kernel.nMin = 1 /\ kernel.nMax = 4
    /\ ShiftedOffset = <<-3, 2>>
    /\ kernel.n = 0
    /\ kernel.valid = 1


\* A step of InitializeDomainGeometryGCIBM or ComputeDomainGeometryGCIBM
ClassifierStep ==
    \/ pc = "part" /\ pc' = "geom"
    \/ pc = "geom" /\ time'.stepCount = time.stepCount + 1

\* A step of WriteComputedDataEnsight
ExporterStep == time'.outputCount = time.outputCount + 1

\* C25: across any sequence of ComputeCFDParameters,
\* InitializeDomainGeometryGCIBM, ComputeDomainGeometryGCIBM and
\* WriteComputedDataEnsight calls, the node-flag array is changed only by the
\* two classifier calls; the exporter leaves flags, field, partition and
\* bodies unchanged; the classifier changes nothing but flag and geoID
\* entries, so neither changes the partition boxes or the body list.
C25_FrameOfClassifierAndExporter ==
    [][/\ nodeFlag' # nodeFlag => ClassifierStep
       /\ ExporterStep =>
              /\ UNCHANGED <<nodeFlag, geoID, part, particle, space, flow>>
              /\ hist'.field \in {Field(space, kind) : kind \in FieldKinds}
       /\ ClassifierStep =>
              /\ UNCHANGED <<part, particle, space, flow, caseFile, geoFile, varFile,
                             particleFile>>
              /\ hist'.field = hist.field
              /\ time'.outputCount = time.outputCount
              /\ time'.currentTime = time.currentTime
       /\ part' # part => pc = "params"]_vars

\* Both kinds of call have happened: the flags hold a ghost node, a step was
\* counted by a second classification and the files of export 0 are written
C25_Witness ==
    /\ pc = "geom"
    /\ time.stepCount = 1
    /\ time.outputCount = 1
    /\ geoFile.name = 0
    /\ \E idx \in DOMAIN nodeFlag : nodeFlag[idx] = 1
    /\ particle # << >>

\* The flag array InitializeDomainGeometryGCIBM produces for the body list p
FreshFlags(p) ==
    ComputeGeometry(space, p, part, EntireDomainExterior(space),
                    [idx \in 0..(space.nMax - 1) |-> NoBody])[1]

\* C27: ComputeDomainGeometryGCIBM run again after the bodies have moved,
\* without InitializeDomainGeometryGCIBM, leaves the flag array equal, node
\* for node over the whole padded domain, to the array a fresh
\* InitializeDomainGeometryGCIBM would produce for the moved bodies; run
\* twice with unchanged bodies it changes no flag, and no flag of the earlier
\* body positions survives.
C27_RecomputeEqualsFresh ==
    [][(pc = "geom" /\ time'.stepCount = time.stepCount + 1) =>
           /\ nodeFlag' = FreshFlags(particle)
           /\ nodeFlag = FreshFlags(particle) => nodeFlag' = nodeFlag]_vars

\* After a second classification the flags are those of the bodies as they
\* stand, while a fluid node still carries the geoID of a body that has left
C27_Witness ==
    /\ pc = "geom"
    /\ time.stepCount = 1
    /\ particle = <<Body(2, 1, 1, 1)>>
    /\ nodeFlag = FreshFlags(particle)
    /\ \E idx \in DOMAIN nodeFlag : nodeFlag[idx] = 0 /\ geoID[idx] # NoBody
    /\ \E idx \in DOMAIN nodeFlag : nodeFlag[idx] = 1

\* The flat indices of the nodes of the padded domain
FlagIndices == 0..(space.nMax - 1)

\* Box 12 keeps one node layer clear of every end of the padded domain
InteriorInsideDomain ==
    /\ 1 <= part.kSub[12] /\ part.kSup[12] <= space.kMax - 1
    /\ 1 <= part.jSub[12] /\ part.jSup[12] <= space.jMax - 1
    /\ 1 <= part.iSub[12] /\ part.iSup[12] <= space.iMax - 1

\* The index expressions of IdentifyGhostCells at node n, each with the
\* node it is meant to address
NeighbourIndices(n) ==
    LET k == n[1]
        j == n[2]
        i == n[3]
    IN  {<<IdxW(space, k, j, i), <<k, j, i - 1>> >>, <<IdxE(space, k, j, i), <<k, j, i + 1>> >>,
         <<IdxS(space, k, j, i), <<k, j - 1, i>> >>, <<IdxN(space, k, j, i), <<k, j + 1, i>> >>,
         <<IdxF(space, k, j, i), <<k - 1, j, i>> >>, <<IdxB(space, k, j, i), <<k + 1, j, i>> >>}

\* C30: every flag-array index read or written by LocateSolidGeometry and
\* IdentifyGhostCells, the six neighbour indices included, lies in [0, nMax)
\* whenever box 12 satisfies 1 <= Sub and Sup <= Max - 1 on each axis; the
\* interior range [ng + 1, n + ng - 1) with ng >= 1 satisfies it, and every
\* neighbour outside box 12 then reads the sentinel 2, which never makes the
\* neighbour product zero.
C30_IndicesInsideArray ==
    pc \in {"part", "geom"} =>
        /\ space.ng >= 1 => InteriorInsideDomain
        /\ InteriorInsideDomain =>
               \A n \in InteriorNodes :
                   /\ Idx(space, n[1], n[2], n[3]) \in FlagIndices
                   /\ \A q \in NeighbourIndices(n) :
                          /\ q[1] \in FlagIndices
                          /\ q[2] \in AllNodes
                          /\ q[1] = IndexNode(q[2][1], q[2][2], q[2][3], space.jMax, space.iMax)
                          /\ (pc = "geom" /\ q[2] \notin InteriorNodes)
                                 => /\ nodeFlag[q[1]] = 2
                                    /\ located[q[1]] = 2

\* A classified domain with one ghost layer whose interior node (2, 2, 2)
\* is solid with neighbours outside box 12, all of them holding 2
C30_Witness ==
    /\ pc = "geom"
    /\ space.ng = 1
    /\ part.iSub[12] = 2
    /\ <<2, 2, 2>> \in InteriorNodes
    /\ <<1, 2, 2>> \notin InteriorNodes
    /\ nodeFlag[IdxF(space, 2, 2, 2)] = 2
    /\ nodeFlag[IdxW(space, 2, 2, 2)] = 2
    /\ nodeFlag[Idx(space, 2, 2, 2)] \in {-1, 1}


\* The flag of node n as the ghost pass computes it from the flags it found
SnapshotFlag(n) ==
    LET idx == Idx(space, n[1], n[2], n[3])
    IN  IF located[idx] = -1
           /\ \E q \in Neighbours(n) :
                  located[IndexNode(q[1], q[2], q[3], space.jMax, space.iMax)] = 0
        THEN 1
        ELSE located[idx]

\* C28: the ghost pass of IdentifyGhostCells updates flags in place while it
\* reads neighbour flags, yet for every visiting order of the interior nodes
\* the final flag array equals the one computed from a snapshot of the flags
\* taken before the pass: a promotion only turns -1 into 1 and never creates
\* or removes a flag 0.
C28_GhostPassOrderFree ==
    pc = "ghost" =>
        /\ \A idx \in DOMAIN nodeFlag :
               /\ (nodeFlag[idx] = 0) = (located[idx] = 0)
               /\ nodeFlag[idx] # located[idx] => located[idx] = -1 /\ nodeFlag[idx] = 1
        /\ \A n \in InteriorNodes :
               nodeFlag[Idx(space, n[1], n[2], n[3])] =
                   IF n \in kernel.pending
                   THEN located[Idx(space, n[1], n[2], n[3])]
                   ELSE SnapshotFlag(n)
        /\ kernel.pending = {} =>
               /\ nodeFlag = IdentifyGhostCells(space, part, located)
               /\ \A idx \in DOMAIN nodeFlag :
                      idx \notin InteriorOffsets => nodeFlag[idx] = located[idx]

\* The pass is over on a 3 x 2 x 2 box with a body of radius 2: two
\* neighbouring nodes are both ghosts, so one of them was read by the other's
\* visit either before or after its own promotion, and a solid node remains
C28_Witness ==
    /\ pc = "ghost"
    /\ kernel.pending = {}
    /\ Cardinality(InteriorNodes) = 12
    /\ nodeFlag[Idx(space, 2, 2, 3)] = 1
    /\ nodeFlag[Idx(space, 2, 3, 3)] = 1
    /\ nodeFlag[Idx(space, 2, 2, 2)] = -1
    /\ nodeFlag[Idx(space, 2, 2, 4)] = 0

====
